---- MODULE Spec2Model ----
(***************************************************************************)
(* A model of rg-profiler's container lifecycle and measurement            *)
(* orchestrator: the retry decorator (src/docker/container_operations.py), *)
(* the container manager (src/docker/container_manager.py), the profiler   *)
(* driver (src/profiler.py) and the energy run coordinator                 *)
(* (src/energy_manager.py), run against a Docker runtime whose answers are *)
(* the environment's choice.                                               *)
(*                                                                         *)
(* Time is counted in whole seconds: time.sleep(n) advances the clock by   *)
(* n, every other statement takes no time.                                 *)
(***************************************************************************)
EXTENDS Integers, Sequences, FiniteSets, TLC

(***************************************************************************)
(* Bounds of the model.                                                    *)
(***************************************************************************)
MaxAttempts == 4
MaxInitialWait == 2
MaxBackoff == 3
MaxSessions == 2
MaxTimeout == 6
MaxInterval == 2
MaxTests == 2
MaxRuns == 2
MaxReports == 3
MaxValue == 3
Precision == 3

(***************************************************************************)
(* Program constants.                                                      *)
(***************************************************************************)
DefaultMaxAttempts == 3
DefaultBackoffFactor == 2
DefaultInitialWait == 1
DEFAULT_STARTUP_TIMEOUT == 45
DefaultHealthCheckInterval == 2
WarmUpDelay == 3
GraceTimeoutSec == 10
MaxWaitTime == 30
MinArtifactSize == 100

VARIABLES
    \* ---- with_retry.wrapper (container_operations.py:31-72)
    rpc,          \* position in the wrapper: "idle", "loop", "call", "returned", "raised", "none"
    rcfg,         \* the retry settings read from config: max_attempts, backoff_factor, initial_wait
    attempt,      \* attempt
    wait_time,    \* wait_time
    last_error,   \* last_error: 0 is None, n is the error raised by the n-th call
    calls,        \* number of times func was invoked
    sleeps,       \* the durations passed to time.sleep, in order
    result,       \* 0: nothing returned; n: the value returned by the n-th call
    \* ---- the Docker runtime
    containers,   \* id -> [name, status]; status "none": no such container
    network,      \* whether the network DOCKER_NETWORK_NAME exists
    netCreates,   \* number of network create calls issued
    \* ---- the orchestrator process
    pc,           \* position of the process
    stack,        \* return positions of the calls in progress
    exitStatus,   \* -1 while running; 0, 1: sys.exit status; 2: uncaught exception
    exitAt,       \* the position at which the process ended
    session,      \* number of sessions started so far
    scfg,         \* the inputs of the session: mode, image, tests, runs
    cid,          \* container.id of the container this session started; 0: none
    target,       \* the container object held by stop_container(_if_exists)
    returned,     \* what the last stop_container(_if_exists) returned; "none": nothing yet
    rtCalls,      \* the runtime calls issued by the last stop_container(_if_exists)
    \* ---- wait_for_container_ready / shutdown_framework
    wcfg,         \* timeout and check_interval of the readiness wait
    now,          \* seconds elapsed since the timed call was entered
    start_time,   \* start_time
    polls,        \* status polls made by the call in progress
    probes,       \* in-container endpoint requests issued by the call in progress
    empties,      \* polls that found the container running and the response empty
    response,     \* what check_server_health read at the current poll, if it read anything
    ready,        \* the value returned by wait_for_container_ready
    \* ---- shutdown_framework
    sfResult,     \* "none" until shutdown_framework returns, then "true" or "false"
    forced,       \* whether shutdown_framework went on to the forced stop
    sent,         \* what send_server_shutdown returned to shutdown_framework: "none", "true", "false"
    \* ---- Profiler._run_tests / EnergyManager.run_tests
    testIdx,      \* index of the test being run
    runNum,       \* run_num
    signals,      \* send_server_shutdown calls made in this session
    sfCalls,      \* shutdown_framework calls made in this session
    interSleeps,  \* time.sleep(run_interval) calls made by EnergyManager.run_tests
    saved,        \* energy runs whose energy.json has been written
    flushI,       \* _save_energy_run_data: iterations of the flush wait done
    artifact,     \* /output/energy/emissions.csv as the container sees it
    flushResult,  \* what the last _save_energy_run_data ended with
    execFailure,  \* last exec in the container that failed on every attempt
    invoked,      \* load tests invoked in the current pass, in order
    failed,       \* load tests of the current pass that returned False
    \* ---- EnergyManager.combine_energy_runs
    numRuns,      \* num_runs
    runsDir,      \* whether output_dir/runs exists
    files,        \* run number -> the state of runs/run_<n>/energy.json
    aggregate,    \* energy_runs.json
    \* ---- ContainerOperations.execute_command
    exec,         \* the last attempt of execute_command: what it met, what it gave
    \* ---- WrkManager.get_script_path, get_wrk_script_path
    script,       \* a script lookup: name, mode, the files under wrk/, the answer
    \* ---- runners/run_with_tracking.py run_with_energy_tracking
    track         \* the tracking wrapper: its position, its locals, who stopped which tracker

retryVars == <<rpc, rcfg, attempt, wait_time, last_error, calls, sleeps, result>>
runtimeVars == <<containers, network, netCreates>>
procVars == <<pc, stack, exitStatus, exitAt, session, scfg, cid, target, returned, rtCalls>>
waitVars == <<wcfg, now, start_time, polls, probes, empties, response, ready>>
shutVars == <<sfResult, forced, sent>>
sessVars == <<testIdx, runNum, signals, sfCalls, interSleeps, saved>>
flushVars == <<flushI, artifact, flushResult>>
logVars == <<execFailure, invoked, failed>>
combVars == <<numRuns, runsDir, files, aggregate>>
unitVars == <<exec, script, track>>
orchVars == <<runtimeVars, procVars, waitVars, shutVars, sessVars, flushVars, logVars, combVars, unitVars>>

\* What the steps of each part of the program leave alone.
envFrame == <<network, netCreates, procVars, waitVars, shutVars, sessVars, flushVars, logVars, retryVars, combVars, unitVars>>
scFrame == <<waitVars, shutVars, sessVars, flushVars, logVars, retryVars, combVars, unitVars>>
waitFrame == <<session, scfg, cid, target, returned, rtCalls, runtimeVars, shutVars, sessVars, flushVars, logVars, retryVars, combVars, unitVars>>
probeFrame == <<session, scfg, cid, target, returned, rtCalls, runtimeVars, shutVars, sessVars, flushVars, retryVars, combVars, unitVars>>
sfFrame == <<session, scfg, cid, target, returned, rtCalls, runtimeVars, sessVars, flushVars, logVars, retryVars, combVars, unitVars>>

vars == <<retryVars, orchVars>>

Ids == 1..MaxSessions
Images == {"flask", "django"}
Modes == {"profile", "standard", "quick", "energy"}
NoContainer == [name |-> <<>>, status |-> "none"]
NoSession == [mode |-> "profile", image |-> "flask", tests |-> 0, bad |-> 0, runs |-> 1]
\* No emissions.csv in /output/energy.
NoArtifact ==
    [exists |-> FALSE, size |-> 0, newlines |-> 0, rows |-> 0, parsable |-> FALSE,
     fresh |-> FALSE]
DefaultWait == [timeout |-> DEFAULT_STARTUP_TIMEOUT, interval |-> DefaultHealthCheckInterval]

\* The retry wrapper is not in use.
RetryIdle ==
    /\ rpc = "idle"
    /\ rcfg = [max_attempts |-> DefaultMaxAttempts,
               backoff_factor |-> DefaultBackoffFactor,
               initial_wait |-> DefaultInitialWait]
    /\ attempt = 1
    /\ wait_time = DefaultInitialWait
    /\ last_error = 0
    /\ calls = 0
    /\ sleeps = <<>>
    /\ result = 0

\* No container exists and no session has been started.
RuntimeEmpty ==
    /\ containers = [i \in Ids |-> NoContainer]
    /\ network = FALSE
    /\ netCreates = 0

\* No request has been answered at the current poll.
NoResponse == [got |-> FALSE, body |-> <<>>]

WaitIdle ==
    /\ wcfg = DefaultWait
    /\ now = 0
    /\ start_time = 0
    /\ polls = 0
    /\ probes = 0
    /\ empties = 0
    /\ response = NoResponse
    /\ ready = FALSE

ShutIdle ==
    /\ sfResult = "none"
    /\ forced = FALSE
    /\ sent = "none"

SessIdle ==
    /\ testIdx = 0
    /\ runNum = 0
    /\ signals = 0
    /\ sfCalls = 0
    /\ interSleeps = 0
    /\ saved = {}
    /\ flushI = 0
    /\ artifact = NoArtifact
    /\ flushResult = "none"
    /\ execFailure = "none"
    /\ invoked = <<>>
    /\ failed = {}

ProcIdle ==
    /\ pc = "idle"
    /\ stack = <<>>
    /\ exitStatus = 0 - 1
    /\ exitAt = ""
    /\ session = 0
    /\ scfg = NoSession
    /\ cid = 0
    /\ target = 0
    /\ returned = "none"
    /\ rtCalls = {}

RECURSIVE Pow(_, _)
Pow(b, e) == IF e = 0 THEN 1 ELSE b * Pow(b, e - 1)

(***************************************************************************)
(* Floating point.  numpy computes the statistics of combine_energy_runs   *)
(* in IEEE-754 binary floating point: every operation gives the exact      *)
(* result rounded to the nearest representable number, ties to the even    *)
(* significand.  The model keeps that rule with a significand of Precision *)
(* bits (53 in a double).  Numbers are fractions <<n, d>> in lowest terms  *)
(* with d > 0; the exponent is not bounded.                                *)
(***************************************************************************)
RECURSIVE GCD(_, _)
GCD(a, b) == IF b = 0 THEN a ELSE GCD(b, a % b)

Abs(n) == IF n < 0 THEN 0 - n ELSE n

Q(n, d) == LET g == GCD(Abs(n), d) IN <<n \div g, d \div g>>
Zero == <<0, 1>>
QAdd(a, b) == Q(a[1] * b[2] + b[1] * a[2], a[2] * b[2])
QSub(a, b) == Q(a[1] * b[2] - b[1] * a[2], a[2] * b[2])
QMul(a, b) == Q(a[1] * b[1], a[2] * b[2])
QDiv(a, b) ==
    IF b[1] > 0 THEN Q(a[1] * b[2], a[2] * b[1])
    ELSE Q(0 - a[1] * b[2], 0 - a[2] * b[1])
QLess(a, b) == a[1] * b[2] < b[1] * a[2]

\* q / 2^e
Scaled(q, e) ==
    IF e >= 0 THEN <<q[1], q[2] * Pow(2, e)>> ELSE <<q[1] * Pow(2, 0 - e), q[2]>>

\* The exponent of q > 0: q / 2^e has exactly Precision bits before the point.
RECURSIVE Exponent(_)
Exponent(q) ==
    IF q[1] < Pow(2, Precision - 1) * q[2] THEN Exponent(Q(2 * q[1], q[2])) - 1
    ELSE IF q[1] >= Pow(2, Precision) * q[2] THEN Exponent(Q(q[1], 2 * q[2])) + 1
    ELSE 0

\* The integer nearest to m >= 0, a tie goes to the even one.
RoundHalfEven(m) ==
    LET q == m[1] \div m[2]
        r == m[1] % m[2]
    IN  IF 2 * r < m[2] THEN q
        ELSE IF 2 * r > m[2] THEN q + 1
        ELSE IF q % 2 = 0 THEN q ELSE q + 1

\* The representable number nearest to q.
Round(q) ==
    IF q[1] = 0 THEN Zero
    ELSE LET a == <<Abs(q[1]), q[2]>>
             e == Exponent(a)
             M == RoundHalfEven(Scaled(a, e))
             S == IF q[1] < 0 THEN 0 - M ELSE M
         IN  IF e >= 0 THEN Q(S * Pow(2, e), 1) ELSE Q(S, Pow(2, 0 - e))

\* The k for which q * 4^k has Precision + 1 bits in its integer square root.
RECURSIVE SqrtScale(_)
SqrtScale(q) ==
    IF q[1] < Pow(4, Precision) * q[2] THEN SqrtScale(Q(4 * q[1], q[2])) + 1
    ELSE IF q[1] >= Pow(4, Precision + 1) * q[2] THEN SqrtScale(Q(q[1], 4 * q[2])) - 1
    ELSE 0

\* The correctly rounded square root of a representable q >= 0: the integer
\* square root of q * 4^k, its remainder kept as a sticky half, rounded.
Sqrt(q) ==
    IF q[1] = 0 THEN Zero
    ELSE LET k == SqrtScale(q)
             y == Scaled(q, 0 - 2 * k)
             X == y[1] \div y[2]
             t == CHOOSE u \in Pow(2, Precision)..(Pow(2, Precision + 1) - 1) :
                      u * u <= X /\ X < (u + 1) * (u + 1)
             sticky == IF t * t = X THEN 0 ELSE 1
             r == Scaled(<<2 * t + sticky, 2>>, k)
         IN  Round(Q(r[1], r[2]))

\* np.asarray of a list of JSON numbers
AsFloats(values) == [i \in 1..Len(values) |-> Round(<<values[i], 1>>)]

\* np.add.reduce over fewer than eight numbers: a running sum
RECURSIVE np_sum(_)
np_sum(a) ==
    IF a = <<>> THEN Zero
    ELSE Round(QAdd(np_sum(SubSeq(a, 1, Len(a) - 1)), a[Len(a)]))

\* np.mean: the sum divided by the count
np_mean(a) == Round(QDiv(np_sum(a), <<Len(a), 1>>))

\* np.std, ddof = 0: sqrt(mean((a - mean(a)) ** 2))
np_std(a) ==
    LET m == np_mean(a)
        x == [i \in 1..Len(a) |-> Round(QSub(a[i], m))]
    IN  Sqrt(np_mean([i \in 1..Len(a) |-> Round(QMul(x[i], x[i]))]))

np_min(a) == CHOOSE x \in {a[i] : i \in 1..Len(a)} : \A i \in 1..Len(a) : ~QLess(a[i], x)
np_max(a) == CHOOSE x \in {a[i] : i \in 1..Len(a)} : \A i \in 1..Len(a) : ~QLess(x, a[i])

\* float(np.std(values) / np.mean(values) * 100) if np.mean(values) > 0 else 0
coefficient_of_variation(a) ==
    IF QLess(Zero, np_mean(a))
    THEN Round(QMul(Round(QDiv(np_std(a), np_mean(a))), <<100, 1>>))
    ELSE Zero

(***************************************************************************)
(* EnergyManager.combine_energy_runs                                       *)
(***************************************************************************)
\* The sections of a run report that are aggregated, in the order in which
\* they are processed, and the metric keys generate_energy_report puts in
\* them with the default units.
Sections == <<"energy", "emissions", "duration">>
SectionNames == {Sections[i] : i \in 1..Len(Sections)}
MetricKeys == [energy |-> {"total_Wh"}, emissions |-> {"mgCO2e"}, duration |-> {"duration_s"}]
AllKeys == UNION {MetricKeys[s] : s \in SectionNames}
MetricValues == 0..MaxValue

\* A section of a report: whether the report has it, the keys in it and
\* their values.
NoSection(s) == [present |-> FALSE, keys |-> {}, value |-> [k \in MetricKeys[s] |-> 0]]
SectionStates(s, vals) ==
    {NoSection(s)} \union
    {sec \in [present : {TRUE}, keys : SUBSET MetricKeys[s], value : [MetricKeys[s] -> vals \union {0}]] :
        \A k \in MetricKeys[s] : sec.value[k] \in (IF k \in sec.keys THEN vals ELSE {0})}

EmptyReport == [s \in SectionNames |-> NoSection(s)]

\* The reports that can be on disk: JSON objects with framework, language and
\* timestamp and any energy section; the emissions and duration sections,
\* which are handled by the same code, are left out of them.
Reports ==
    {[s \in SectionNames |-> IF s = "energy" THEN e ELSE NoSection(s)] :
       e \in SectionStates("energy", MetricValues)}

\* runs/run_i/energy.json: missing, not a JSON object, or a report.
FileStates ==
    {[state |-> st, data |-> EmptyReport] : st \in {"missing", "unreadable"}} \union
    {[state |-> "report", data |-> r] : r \in Reports}

NoAggregate ==
    [written |-> FALSE, runs |-> 0,
     statistics |-> [k \in AllKeys |-> [values |-> <<>>, mean |-> Zero, stddev |-> Zero,
                                        min |-> Zero, max |-> Zero,
                                        coefficient_of_variation |-> Zero]]]

CombIdle ==
    /\ numRuns = 0
    /\ runsDir = FALSE
    /\ files = [i \in 1..MaxReports |-> [state |-> "missing", data |-> EmptyReport]]
    /\ aggregate = NoAggregate

\* execute_command has not been called.
NoExec ==
    [check_exit_code |-> TRUE, found |-> TRUE, failed |-> FALSE, exit_code |-> 0,
     output |-> <<>>, outcome |-> "none", text |-> <<>>, warned |-> FALSE]

\* No script has been looked up, wrk/ is empty.
NoPath == <<"", [stem |-> "", lua |-> FALSE]>>
NoScript ==
    [name |-> [stem |-> "", lua |-> FALSE], mode |-> "profile", files |-> {},
     by |-> "none", kind |-> "none", path |-> NoPath, warned |-> FALSE,
     arg |-> NoPath]

\* run_with_energy_tracking is not running.
NoTrack ==
    [pc |-> "none", at |-> "none", runs |-> 0, run_num |-> 0, tracker |-> 0,
     started |-> {}, mainStops |-> <<>>, handlerStops |-> <<>>, unbound |-> FALSE,
     shutting_down |-> FALSE, signals |-> 0, total_exit_code |-> 0, status |-> 0 - 1]

UnitIdle == exec = NoExec /\ script = NoScript /\ track = NoTrack

(***************************************************************************)
(* with_retry: the retry settings.  The defaults are overridden by the     *)
(* "retry" section of the config passed as the keyword argument config.    *)
(***************************************************************************)
RetryDefaults ==
    [max_attempts |-> DefaultMaxAttempts,
     backoff_factor |-> DefaultBackoffFactor,
     initial_wait |-> DefaultInitialWait]

\* max_attempts is read from the config unchecked: it may be zero or negative.
AttemptValues == (0 - 1)..MaxAttempts

RetryConfigs ==
    [max_attempts : AttemptValues,
     backoff_factor : 1..MaxBackoff,
     initial_wait : 1..MaxInitialWait]

\* while attempt <= max_attempts
with_retry_LoopCondMutant(a, k) == a < k
with_retry_LoopCond(a, k) == a <= k

\* if attempt > 1: time.sleep(wait_time); wait_time *= backoff_factor
with_retry_SleepsBefore(a) == a > 1

with_retry_NextWaitMutant(w, f) == w + f
with_retry_NextWait(w, f) == w * f

\* The wrapper is entered: attempt = 1, wait_time = initial_wait, last_error = None.
with_retry_Enter(cfg) ==
    /\ rpc = "idle"
    /\ rcfg' = cfg
    /\ attempt' = 1
    /\ wait_time' = cfg.initial_wait
    /\ last_error' = 0
    /\ calls' = 0
    /\ sleeps' = <<>>
    /\ result' = 0
    /\ rpc' = "loop"
    /\ UNCHANGED orchVars

\* The loop test, and the sleep that precedes every attempt but the first.
with_retry_Loop ==
    /\ rpc = "loop"
    /\ IF with_retry_LoopCond(attempt, rcfg.max_attempts)
       THEN /\ IF with_retry_SleepsBefore(attempt)
               THEN /\ sleeps' = Append(sleeps, wait_time)
                    /\ wait_time' = with_retry_NextWait(wait_time, rcfg.backoff_factor)
               ELSE UNCHANGED <<sleeps, wait_time>>
            /\ rpc' = "call"
       ELSE \* all attempts failed: raise last_error if there is one, else fall
            \* off the end of the wrapper, which returns None
            /\ rpc' = IF last_error # 0 THEN "raised" ELSE "none"
            /\ UNCHANGED <<sleeps, wait_time>>
    /\ UNCHANGED <<rcfg, attempt, last_error, calls, result>>
    /\ UNCHANGED orchVars

\* return func(*args, **kwargs): the call succeeds.
with_retry_CallReturns ==
    /\ rpc = "call"
    /\ calls' = calls + 1
    /\ result' = calls + 1
    /\ rpc' = "returned"
    /\ UNCHANGED <<rcfg, attempt, wait_time, last_error, sleeps>>
    /\ UNCHANGED orchVars

\* except Exception as e: last_error = e; attempt += 1
with_retry_CallRaises ==
    /\ rpc = "call"
    /\ calls' = calls + 1
    /\ last_error' = calls + 1
    /\ attempt' = attempt + 1
    /\ rpc' = "loop"
    /\ UNCHANGED <<rcfg, wait_time, sleeps, result>>
    /\ UNCHANGED orchVars

with_retry_Done == rpc \in {"returned", "raised", "none"}

\* The next wrapped call starts.
with_retry_Reset ==
    /\ with_retry_Done
    /\ rpc' = "idle"
    /\ UNCHANGED <<rcfg, attempt, wait_time, last_error, calls, sleeps, result>>
    /\ UNCHANGED orchVars

InitRetry == RetryIdle /\ RuntimeEmpty /\ ProcIdle /\ WaitIdle /\ ShutIdle /\ SessIdle /\ CombIdle /\ UnitIdle

with_retry_Start == \E cfg \in RetryConfigs \cup {RetryDefaults} : with_retry_Enter(cfg)

NextRetry ==
    \/ with_retry_Start
    \/ with_retry_Loop
    \/ with_retry_CallReturns
    \/ with_retry_CallRaises
    \/ with_retry_Reset

SpecRetry == InitRetry /\ [][NextRetry]_vars

(***************************************************************************)
(* The Docker runtime, as docker-py shows it to the orchestrator.          *)
(***************************************************************************)
Exists(i) == i \in Ids /\ containers[i].status # "none"
IsRunning(i) == i \in Ids /\ containers[i].status = "running"

\* container_name = f"{container_prefix}-{image_name.split(':')[0]}"
ContainerPrefix == "rg-profiler"
ContainerName(image) == <<ContainerPrefix, image>>

\* The containers DockerUtils.get_container(name) can resolve.
Named(n) == {i \in Ids : Exists(i) /\ containers[i].name = n}

\* container.stop(): the container is stopped, it still exists.
DockerStop(i) == [containers EXCEPT ![i].status = "exited"]
\* container.remove()
DockerRemove(i) == [containers EXCEPT ![i] = NoContainer]
\* client.containers.run(image, name=..., detach=True)
DockerRun(i, n) == [containers EXCEPT ![i] = [name |-> n, status |-> "running"]]

(***************************************************************************)
(* Control: jumps, calls, returns and the end of the process.              *)
(***************************************************************************)
Live == pc \notin {"idle", "exited", "done"}

Jump(p) == pc' = p /\ UNCHANGED <<stack, exitStatus, exitAt>>

Call(entry, back) ==
    /\ pc' = entry
    /\ stack' = <<back>> \o stack
    /\ UNCHANGED <<exitStatus, exitAt>>

Return ==
    /\ pc' = Head(stack)
    /\ stack' = Tail(stack)
    /\ UNCHANGED <<exitStatus, exitAt>>

\* sys.exit(status), or an uncaught exception (status 1): nothing runs after it,
\* main() has no try/finally around the session.  The stack is kept as the
\* record of where the process was.
Exit(status) ==
    /\ pc' = "exited"
    /\ exitStatus' = status
    /\ exitAt' = pc
    /\ UNCHANGED stack

(***************************************************************************)
(* The environment: the measured container may stop by itself or be        *)
(* removed from outside at any time while a session runs.                  *)
(***************************************************************************)
EnvContainerExits ==
    /\ Live
    /\ \E i \in Ids :
        /\ IsRunning(i)
        /\ containers' = DockerStop(i)
    /\ UNCHANGED envFrame

EnvContainerVanishes ==
    /\ Live
    /\ \E i \in Ids :
        /\ Exists(i)
        /\ containers' = DockerRemove(i)
    /\ UNCHANGED envFrame

(***************************************************************************)
(* ContainerOperations.check_server_health                                 *)
(***************************************************************************)
\* The bodies curl can print: empty, blank, text.
Responses == {<<>>, <<" ">>, <<"x">>, <<" ", "x">>}

RECURSIVE LStrip(_)
LStrip(r) == IF r # <<>> /\ Head(r) = " " THEN LStrip(Tail(r)) ELSE r

RECURSIVE RStrip(_)
RStrip(r) ==
    IF r # <<>> /\ r[Len(r)] = " " THEN RStrip(SubSeq(r, 1, Len(r) - 1)) ELSE r

\* str.strip()
Strip(r) == RStrip(LStrip(r))

\* is_healthy = len(result.strip()) > 0
IsHealthyMutant(r) == Len(r) > 0
IsHealthy(r) == Len(Strip(r)) > 0

\* execute_command against a container that is not running: exec_run raises
\* an API error for a stopped container and NotFound for a vanished one, on
\* every attempt.
ExecFailureKind(i) == IF Exists(i) THEN "stopped" ELSE "vanished"

\* The seconds with_retry sleeps when every attempt from attempt a on fails.
RECURSIVE with_retry_SleepWhenAllFail(_, _, _)
with_retry_SleepWhenAllFail(a, w, cfg) ==
    IF ~with_retry_LoopCond(a, cfg.max_attempts) THEN 0
    ELSE IF with_retry_SleepsBefore(a)
         THEN w + with_retry_SleepWhenAllFail(a + 1, with_retry_NextWait(w, cfg.backoff_factor), cfg)
         ELSE with_retry_SleepWhenAllFail(a + 1, w, cfg)

\* execute_command is called without config=: the default retry settings.
ExecFailureDelay == with_retry_SleepWhenAllFail(1, RetryDefaults.initial_wait, RetryDefaults)

(***************************************************************************)
(* ContainerManager.wait_for_container_ready                               *)
(***************************************************************************)
\* time.sleep(3); start_time = time.time()
wait_for_container_ready_Enter ==
    /\ pc = "wr_enter"
    /\ now' = WarmUpDelay
    /\ start_time' = WarmUpDelay
    /\ polls' = 0
    /\ probes' = 0
    /\ empties' = 0
    /\ response' = NoResponse
    /\ ready' = FALSE
    /\ Jump("wr_loop")
    /\ UNCHANGED wcfg
    /\ UNCHANGED waitFrame

\* while time.time() - start_time < timeout
wait_for_container_ready_LoopCondMutant(t, s0, timeout) == t - s0 <= timeout
wait_for_container_ready_LoopCond(t, s0, timeout) == t - s0 < timeout

\* The loop test; when it fails: "Timeout waiting for server", return False.
wait_for_container_ready_Loop ==
    /\ pc = "wr_loop"
    /\ IF wait_for_container_ready_LoopCond(now, start_time, wcfg.timeout)
       THEN Jump("wr_get") /\ UNCHANGED ready
       ELSE ready' = FALSE /\ Return
    /\ response' = NoResponse
    /\ UNCHANGED <<wcfg, now, start_time, polls, probes, empties>>
    /\ UNCHANGED waitFrame

\* except Exception: logger.warning(...); time.sleep(check_interval)
wait_for_container_ready_OnLookupErrorMutant ==
    /\ ready' = FALSE
    /\ Return
    /\ UNCHANGED now
wait_for_container_ready_OnLookupError ==
    /\ now' = now + wcfg.interval
    /\ Jump("wr_loop")
    /\ UNCHANGED ready

\* if container.status != "running": ...; return False
wait_for_container_ready_OnNotRunningMutant ==
    /\ now' = now + wcfg.interval
    /\ Jump("wr_loop")
    /\ UNCHANGED ready
wait_for_container_ready_OnNotRunning ==
    /\ ready' = FALSE
    /\ Return
    /\ UNCHANGED now

\* container = DockerUtils.get_container(container_id) and the status test.
wait_for_container_ready_Get ==
    /\ pc = "wr_get"
    /\ polls' = polls + 1
    /\ IF ~Exists(cid) THEN wait_for_container_ready_OnLookupError
       ELSE IF ~IsRunning(cid) THEN wait_for_container_ready_OnNotRunning
       ELSE Jump("wr_probe") /\ UNCHANGED <<now, ready>>
    /\ UNCHANGED <<wcfg, start_time, probes, empties, response>>
    /\ UNCHANGED waitFrame

\* check_server_health answers with the body r of a running container.
wait_for_container_ready_Probe ==
    /\ pc = "wr_probe"
    /\ IsRunning(cid)
    /\ probes' = probes + 1
    /\ \E r \in Responses :
        /\ response' = [got |-> TRUE, body |-> r]
        /\ IF IsHealthy(r)
           THEN /\ ready' = TRUE
                /\ Return
                /\ UNCHANGED <<now, empties>>
           ELSE /\ empties' = empties + 1
                /\ now' = now + wcfg.interval
                /\ Jump("wr_loop")
                /\ UNCHANGED ready
    /\ UNCHANGED <<wcfg, start_time, polls>>
    /\ UNCHANGED waitFrame

\* The container stopped or vanished after the status test: exec_run raises on
\* every attempt of execute_command, check_server_health returns False.
wait_for_container_ready_ProbeFails ==
    /\ pc = "wr_probe"
    /\ ~IsRunning(cid)
    /\ probes' = probes + 1
    /\ now' = now + ExecFailureDelay + wcfg.interval
    /\ execFailure' = ExecFailureKind(cid)
    /\ Jump("wr_loop")
    /\ UNCHANGED <<wcfg, start_time, polls, empties, response, ready, invoked, failed>>
    /\ UNCHANGED probeFrame

(***************************************************************************)
(* wait_for_container_ready on its own: a container that was just started, *)
(* any timeout and check interval.                                         *)
(***************************************************************************)
WaitConfigs == [timeout : 1..MaxTimeout, interval : 1..MaxInterval]

InitReady ==
    /\ RetryIdle
    /\ containers = [i \in Ids |->
          IF i = 1 THEN [name |-> ContainerName("flask"), status |-> "running"]
          ELSE NoContainer]
    /\ network = TRUE
    /\ netCreates = 0
    /\ pc = "wr_enter"
    /\ stack = <<"done">>
    /\ exitStatus = 0 - 1
    /\ exitAt = ""
    /\ session = 1
    /\ scfg = NoSession
    /\ cid = 1
    /\ target = 0
    /\ returned = "none"
    /\ rtCalls = {}
    /\ wcfg \in WaitConfigs
    /\ now = 0
    /\ start_time = 0
    /\ polls = 0
    /\ probes = 0
    /\ empties = 0
    /\ response = NoResponse
    /\ ready = FALSE
    /\ ShutIdle
    /\ SessIdle
    /\ CombIdle
    /\ UnitIdle

NextReady ==
    \/ wait_for_container_ready_Enter
    \/ wait_for_container_ready_Loop
    \/ wait_for_container_ready_Get
    \/ wait_for_container_ready_Probe
    \/ wait_for_container_ready_ProbeFails
    \/ EnvContainerExits
    \/ EnvContainerVanishes

SpecReady == InitReady /\ [][NextReady]_vars

(***************************************************************************)
(* ContainerManager.stop_container: stop then remove; NotFound at any of   *)
(* the three runtime calls is "already removed" and returns True, any      *)
(* other error is fatal.                                                   *)
(***************************************************************************)
\* except docker.errors.NotFound: "not found (already removed)"; return True
stop_container_NotFoundMutant == "false"
stop_container_NotFound == "true"

\* container = DockerUtils.get_container(container_id_or_name)
stop_container_Get ==
    /\ pc = "sc_get"
    /\ rtCalls' = {"get"}
    /\ IF Exists(cid)
       THEN target' = cid /\ returned' = "none" /\ Jump("sc_stop")
       ELSE UNCHANGED target /\ returned' = stop_container_NotFound /\ Return
    /\ UNCHANGED <<session, scfg, cid, runtimeVars>>
    /\ UNCHANGED scFrame

\* container.stop(timeout=stop_timeout)
stop_container_Stop ==
    /\ pc = "sc_stop"
    /\ rtCalls' = rtCalls \cup {"stop"}
    /\ IF Exists(target)
       THEN containers' = DockerStop(target) /\ UNCHANGED returned /\ Jump("sc_remove")
       ELSE UNCHANGED containers /\ returned' = stop_container_NotFound /\ Return
    /\ UNCHANGED <<session, scfg, cid, target, network, netCreates>>
    /\ UNCHANGED scFrame

\* container.remove(); return True
stop_container_Remove ==
    /\ pc = "sc_remove"
    /\ rtCalls' = rtCalls \cup {"remove"}
    /\ IF Exists(target)
       THEN containers' = DockerRemove(target) /\ returned' = "true"
       ELSE UNCHANGED containers /\ returned' = stop_container_NotFound
    /\ Return
    /\ UNCHANGED <<session, scfg, cid, target, network, netCreates>>
    /\ UNCHANGED scFrame

\* except Exception: logger.error("Error stopping container"); sys.exit(1).
\* The runtime call that failed changed nothing.
stop_container_Error ==
    /\ pc \in {"sc_get", "sc_stop", "sc_remove"}
    /\ Exit(1)
    /\ UNCHANGED <<session, scfg, cid, target, returned, rtCalls, runtimeVars>>
    /\ UNCHANGED scFrame

(***************************************************************************)
(* ContainerOperations.send_server_shutdown: curl /shutdown inside the     *)
(* container.  It never raises; when exec_run fails on every attempt of    *)
(* execute_command it returns False after the retry sleeps.                *)
(***************************************************************************)
\* send_server_shutdown: True when execute_command returned, False when it
\* raised on every attempt (the container is not running, or the runtime
\* refused the exec of a running one).
send_server_shutdown(running, raised) == IF running /\ ~raised THEN "true" ELSE "false"

send_server_shutdown_Delay(ok) == IF ok = "true" THEN 0 ELSE ExecFailureDelay

(***************************************************************************)
(* ContainerManager.shutdown_framework.  framework_config always holds     *)
(* server.port (parse_framework_config supplies the default), so the       *)
(* missing-port exit is not taken.                                         *)
(***************************************************************************)
\* The return value of send_server_shutdown is not looked at: the status
\* poll comes next whatever it was.
shutdown_framework_AfterSendMutant(ok) == IF ok = "false" THEN "sf_forced" ELSE "sf_poll"
shutdown_framework_AfterSend(ok) == "sf_poll"

\* ContainerOperations.send_server_shutdown(container_id, server_port, 10, ...)
shutdown_framework_Enter ==
    /\ pc = "sf_enter"
    /\ signals' = signals + 1
    /\ sfCalls' = sfCalls + 1
    /\ sfResult' = "none"
    /\ forced' = FALSE
    /\ polls' = 0
    /\ \E raised \in BOOLEAN : sent' = send_server_shutdown(IsRunning(cid), raised)
    /\ now' = send_server_shutdown_Delay(sent')
    /\ start_time' = send_server_shutdown_Delay(sent')
    /\ Jump(shutdown_framework_AfterSend(sent'))
    /\ execFailure' = IF IsRunning(cid) THEN execFailure ELSE ExecFailureKind(cid)
    /\ UNCHANGED <<wcfg, probes, empties, response, ready, testIdx, runNum, interSleeps, saved>>
    /\ UNCHANGED <<invoked, failed, flushVars>>
    /\ UNCHANGED <<session, scfg, cid, target, returned, rtCalls, runtimeVars, retryVars, combVars, unitVars>>

\* for i in range(10)
shutdown_framework_LoopCondMutant(i) == i < GraceTimeoutSec + 1
shutdown_framework_LoopCond(i) == i < GraceTimeoutSec

\* container.status != "running", or docker.errors.NotFound
shutdown_framework_StoppedMutant(i) == ~Exists(i)
shutdown_framework_Stopped(i) == ~Exists(i) \/ ~IsRunning(i)

\* One iteration: the status poll, then either return True or time.sleep(1).
\* The locals of the call are gone when it returns.
shutdown_framework_Poll ==
    /\ pc = "sf_poll"
    /\ shutdown_framework_LoopCond(polls)
    /\ polls' = polls + 1
    /\ IF shutdown_framework_Stopped(cid)
       THEN /\ sfResult' = "true"
            /\ sent' = "none"
            /\ Return
            /\ UNCHANGED now
       ELSE /\ now' = now + 1
            /\ Jump("sf_poll")
            /\ UNCHANGED <<sfResult, sent>>
    /\ UNCHANGED <<wcfg, start_time, probes, empties, response, ready, forced>>
    /\ UNCHANGED sfFrame

\* The loop is over: "Container didn't shutdown gracefully, forcing stop";
\* ContainerManager.stop_container(container_id, framework_config)
shutdown_framework_OnTimeoutMutant ==
    /\ forced' = TRUE
    /\ Jump("sf_forced")
    /\ UNCHANGED sent
shutdown_framework_OnTimeout ==
    /\ forced' = TRUE
    /\ Call("sc_get", "sf_forced")
    /\ UNCHANGED sent

shutdown_framework_Timeout ==
    /\ pc = "sf_poll"
    /\ ~shutdown_framework_LoopCond(polls)
    /\ shutdown_framework_OnTimeout
    /\ UNCHANGED <<waitVars, sfResult>>
    /\ UNCHANGED sfFrame

\* return False, once the forced stop has returned.
shutdown_framework_Forced ==
    /\ pc = "sf_forced"
    /\ sfResult' = "false"
    /\ sent' = "none"
    /\ Return
    /\ UNCHANGED <<waitVars, forced>>
    /\ UNCHANGED sfFrame

\* The status poll raised an error other than NotFound: the outer handler
\* stops the container and exits.
shutdown_framework_PollError ==
    /\ pc = "sf_poll"
    /\ shutdown_framework_LoopCond(polls)
    /\ Call("sc_get", "sf_fatal")
    /\ UNCHANGED <<waitVars, shutVars>>
    /\ UNCHANGED sfFrame

\* logger.error("Error during graceful shutdown"); ...; sys.exit(1)
shutdown_framework_Fatal ==
    /\ pc = "sf_fatal"
    /\ Exit(1)
    /\ UNCHANGED <<waitVars, shutVars>>
    /\ UNCHANGED sfFrame

(***************************************************************************)
(* shutdown_framework on its own, called on a container that was running.  *)
(***************************************************************************)
InitShutdown ==
    /\ RetryIdle
    /\ containers = [i \in Ids |->
          IF i = 1 THEN [name |-> ContainerName("flask"), status |-> "running"]
          ELSE NoContainer]
    /\ network = TRUE
    /\ netCreates = 0
    /\ pc = "sf_enter"
    /\ stack = <<"done">>
    /\ exitStatus = 0 - 1
    /\ exitAt = ""
    /\ session = 1
    /\ scfg = NoSession
    /\ cid = 1
    /\ target = 0
    /\ returned = "none"
    /\ rtCalls = {}
    /\ WaitIdle
    /\ ShutIdle
    /\ SessIdle
    /\ CombIdle
    /\ UnitIdle

NextShutdown ==
    \/ shutdown_framework_Enter
    \/ shutdown_framework_Poll
    \/ shutdown_framework_Timeout
    \/ shutdown_framework_Forced
    \/ shutdown_framework_PollError
    \/ shutdown_framework_Fatal
    \/ stop_container_Get
    \/ stop_container_Stop
    \/ stop_container_Remove
    \/ stop_container_Error
    \/ EnvContainerExits
    \/ EnvContainerVanishes

SpecShutdown == InitShutdown /\ [][NextShutdown]_vars

(***************************************************************************)
(* main(): one measurement session per process.  A new process may be      *)
(* started once the previous one has ended; it finds the containers the    *)
(* previous one left behind.                                               *)
(***************************************************************************)
\* Profiler.get_tests_for_mode: quick mode keeps only the first test.
get_tests_for_modeMutant(cfg) == cfg.tests
get_tests_for_mode(cfg) ==
    IF cfg.mode = "quick" /\ cfg.tests > 0 THEN 1 ELSE cfg.tests

\* The command lines and configurations of a session: mode, framework image,
\* number of tests, index of a test without name or endpoint (0: none) and
\* number of energy runs (energy mode only).  main() loads all of it before
\* the container is started; the image name is used by run_container, the
\* rest is first read by Profiler.run, which is where its value is drawn.
SessionConfigs ==
    {c \in [mode : Modes, image : Images, tests : 0..MaxTests,
            bad : 0..MaxTests, runs : 1..MaxRuns] :
        /\ c.bad <= c.tests
        /\ c.mode # "energy" => c.runs = 1}

\* DatabaseManager.start_database, unless --skip-db is given, runs
\* "docker network create rg-profiler-network" without looking first and
\* ignores its failure; the runtime refuses a name that is in use.
start_database_Network(skip_db) ==
    IF skip_db
    THEN UNCHANGED <<network, netCreates>>
    ELSE network' = TRUE /\ netCreates' = netCreates + 1

main_Start(image, skip_db) ==
    /\ pc \in {"idle", "exited", "done"}
    /\ session < MaxSessions
    /\ session' = session + 1
    /\ scfg' = [NoSession EXCEPT !.image = image]
    /\ cid' = 0
    /\ target' = 0
    /\ returned' = "none"
    /\ rtCalls' = {}
    /\ pc' = "rc_network"
    /\ stack' = <<>>
    /\ exitStatus' = 0 - 1
    /\ exitAt' = ""
    /\ wcfg' = DefaultWait
    /\ now' = 0 /\ start_time' = 0 /\ polls' = 0 /\ probes' = 0 /\ empties' = 0
    /\ response' = NoResponse
    /\ ready' = FALSE
    /\ sfResult' = "none" /\ forced' = FALSE /\ sent' = "none"
    /\ testIdx' = 0 /\ runNum' = 0 /\ signals' = 0 /\ sfCalls' = 0 /\ interSleeps' = 0 /\ saved' = {}
    /\ flushI' = 0 /\ artifact' = NoArtifact /\ flushResult' = "none"
    /\ execFailure' = "none" /\ invoked' = <<>> /\ failed' = {}
    /\ start_database_Network(skip_db)
    /\ UNCHANGED <<containers, retryVars, combVars, unitVars>>

main == \E image \in Images, skip_db \in BOOLEAN : main_Start(image, skip_db)

\* main() returns: the process ends with status 0.
Finish ==
    /\ pc' = "done"
    /\ exitStatus' = 0
    /\ exitAt' = pc
    /\ UNCHANGED stack

(***************************************************************************)
(* ContainerManager.run_container                                          *)
(***************************************************************************)
\* networks = DockerUtils.list_networks(...); if not networks: create_network
run_container_NoNetworkMutant == TRUE
run_container_NoNetwork == ~network

run_container_Network ==
    /\ pc = "rc_network"
    /\ IF run_container_NoNetwork
       THEN network' = TRUE /\ netCreates' = netCreates + 1
       ELSE UNCHANGED <<network, netCreates>>
    /\ Jump("sie_get")
    /\ UNCHANGED <<session, scfg, cid, target, returned, rtCalls, containers>>
    /\ UNCHANGED scFrame

(***************************************************************************)
(* ContainerManager.stop_container_if_exists, called by create_container   *)
(* with the name of the container to start.                                *)
(***************************************************************************)
\* except docker.errors.NotFound: return False
stop_container_if_exists_NotFoundMutant == "true"
stop_container_if_exists_NotFound == "false"

\* container = DockerUtils.get_container(container_name)
stop_container_if_exists_GetMutant ==
    /\ pc = "sie_get"
    /\ rtCalls' = {"get"}
    /\ returned' = stop_container_if_exists_NotFound
    /\ UNCHANGED target
    /\ Jump("rc_run")
    /\ UNCHANGED <<session, scfg, cid, runtimeVars>>
    /\ UNCHANGED scFrame
stop_container_if_exists_Get ==
    /\ pc = "sie_get"
    /\ rtCalls' = {"get"}
    /\ IF Named(ContainerName(scfg.image)) = {}
       THEN /\ UNCHANGED target
            /\ returned' = stop_container_if_exists_NotFound
            /\ Jump("rc_run")
       ELSE /\ target' = CHOOSE i \in Named(ContainerName(scfg.image)) : TRUE
            /\ returned' = "none"
            /\ Jump("sie_stop")
    /\ UNCHANGED <<session, scfg, cid, runtimeVars>>
    /\ UNCHANGED scFrame

\* container.stop(timeout=stop_timeout)
stop_container_if_exists_Stop ==
    /\ pc = "sie_stop"
    /\ rtCalls' = rtCalls \cup {"stop"}
    /\ IF Exists(target)
       THEN /\ containers' = DockerStop(target)
            /\ UNCHANGED returned
            /\ Jump("sie_remove")
       ELSE /\ UNCHANGED containers
            /\ returned' = stop_container_if_exists_NotFound
            /\ Jump("rc_run")
    /\ UNCHANGED <<session, scfg, cid, target, network, netCreates>>
    /\ UNCHANGED scFrame

\* container.remove(); return True
stop_container_if_exists_Remove ==
    /\ pc = "sie_remove"
    /\ rtCalls' = rtCalls \cup {"remove"}
    /\ IF Exists(target)
       THEN containers' = DockerRemove(target) /\ returned' = "true"
       ELSE UNCHANGED containers /\ returned' = stop_container_if_exists_NotFound
    /\ Jump("rc_run")
    /\ UNCHANGED <<session, scfg, cid, target, network, netCreates>>
    /\ UNCHANGED scFrame

\* except Exception: logger.error("Error removing existing container"); sys.exit(1)
stop_container_if_exists_ErrorMutant ==
    /\ pc \in {"sie_get", "sie_stop", "sie_remove"}
    /\ Jump("rc_run")
    /\ UNCHANGED <<session, scfg, cid, target, returned, rtCalls, runtimeVars>>
    /\ UNCHANGED scFrame
stop_container_if_exists_Error ==
    /\ pc \in {"sie_get", "sie_stop", "sie_remove"}
    /\ Exit(1)
    /\ UNCHANGED <<session, scfg, cid, target, returned, rtCalls, runtimeVars>>
    /\ UNCHANGED scFrame

\* container = DockerUtils.run_container(image_name, name=container_name, ...);
\* the runtime refuses a name that is in use, which ends in
\* "Failed to start container"; then wait_for_container_ready(container.id).
run_container_Run ==
    /\ pc = "rc_run"
    /\ IF Named(ContainerName(scfg.image)) = {}
       THEN /\ containers' = DockerRun(session, ContainerName(scfg.image))
            /\ cid' = session
            /\ Call("wr_enter", "rc_after_wait")
       ELSE /\ UNCHANGED <<containers, cid>>
            /\ Exit(1)
    /\ UNCHANGED <<session, scfg, target, returned, rtCalls, network, netCreates>>
    /\ UNCHANGED scFrame

\* DockerUtils.run_container raised for another reason: no container, exit.
run_container_RunFails ==
    /\ pc = "rc_run"
    /\ Exit(1)
    /\ UNCHANGED <<session, scfg, cid, target, returned, rtCalls, runtimeVars>>
    /\ UNCHANGED scFrame

\* if wait_for_container_ready(...): return container.id; the locals of the
\* calls that have returned are dropped.
\* else: ContainerManager.stop_container(container.id, framework_config)
run_container_OnNotReadyMutant == Jump("rc_fatal")
run_container_OnNotReady == Call("sc_get", "rc_fatal")

run_container_AfterWait ==
    /\ pc = "rc_after_wait"
    /\ IF ready THEN Jump("prof_run") ELSE run_container_OnNotReady
    /\ now' = 0 /\ start_time' = 0 /\ polls' = 0 /\ probes' = 0 /\ empties' = 0
    /\ response' = NoResponse
    /\ execFailure' = "none"
    /\ target' = 0
    /\ returned' = "none"
    /\ rtCalls' = {}
    /\ UNCHANGED <<wcfg, ready, invoked, failed>>
    /\ UNCHANGED <<session, scfg, cid, runtimeVars, shutVars, sessVars, flushVars, retryVars, combVars, unitVars>>

\* logger.error("Container failed to become ready"); sys.exit(1)
run_container_Fatal ==
    /\ pc = "rc_fatal"
    /\ Exit(1)
    /\ UNCHANGED <<session, scfg, cid, target, returned, rtCalls, runtimeVars>>
    /\ UNCHANGED scFrame

(***************************************************************************)
(* Profiler.run and Profiler._run_tests                                    *)
(***************************************************************************)
\* tests = get_tests_for_mode(config, mode); if not tests: sys.exit(1);
\* then EnergyManager.run_tests or Profiler._run_tests, both of which start
\* with get_container_hostname (an exec in the container): when the exec
\* fails on every attempt the exception reaches the top of main().
Profiler_run_With(c) ==
    /\ pc = "prof_run"
    /\ scfg' = c
    /\ invoked' = <<>>
    /\ failed' = {}
    /\ IF get_tests_for_mode(c) = 0
       THEN /\ Exit(1)
            /\ UNCHANGED <<sessVars, execFailure>>
       ELSE IF ~IsRunning(cid)
       THEN /\ Exit(1)
            /\ execFailure' = ExecFailureKind(cid)
            /\ UNCHANGED sessVars
       ELSE /\ Jump(IF c.mode = "energy" THEN "en_test" ELSE "rt_test")
            /\ testIdx' = 1
            /\ runNum' = IF c.mode = "energy" THEN 1 ELSE 0
            /\ UNCHANGED <<signals, sfCalls, interSleeps, saved, execFailure>>
    /\ UNCHANGED <<session, cid, target, returned, rtCalls, runtimeVars>>
    /\ UNCHANGED <<waitVars, shutVars, flushVars, retryVars, combVars, unitVars>>

Profiler_run == \E c \in SessionConfigs : c.image = scfg.image /\ Profiler_run_With(c)

\* One iteration of "for test in tests" in _run_tests: the test definition is
\* checked, WrkManager.run_test returns success or failure (it never raises),
\* a failure is fatal in quick mode only.  After the last test:
\* Profiler._cleanup_container.
Profiler_run_tests_OnFailureMutant(success) == ~success
Profiler_run_tests_OnFailure(success) == ~success /\ scfg.mode = "quick"

Profiler_run_tests_Test ==
    /\ pc = "rt_test"
    /\ testIdx <= get_tests_for_mode(scfg)
    /\ IF testIdx = scfg.bad
       THEN Exit(1) /\ UNCHANGED <<testIdx, invoked, failed>>
       ELSE \E success \in BOOLEAN :
              /\ invoked' = Append(invoked, testIdx)
              /\ failed' = IF success THEN failed ELSE failed \union {testIdx}
              /\ IF Profiler_run_tests_OnFailure(success)
                 THEN Exit(1) /\ UNCHANGED testIdx
                 ELSE Jump("rt_test") /\ testIdx' = testIdx + 1
    /\ UNCHANGED <<runNum, signals, sfCalls, interSleeps, saved, execFailure>>
    /\ UNCHANGED <<session, scfg, cid, target, returned, rtCalls, runtimeVars>>
    /\ UNCHANGED <<waitVars, shutVars, flushVars, retryVars, combVars, unitVars>>

\* return Profiler._cleanup_container(...): shutdown_framework first.
Profiler_cleanup_container ==
    /\ pc = "rt_test"
    /\ testIdx > get_tests_for_mode(scfg)
    /\ Call("sf_enter", "cl_logs")
    /\ invoked' = <<>>
    /\ failed' = {}
    /\ UNCHANGED <<session, scfg, cid, target, returned, rtCalls, runtimeVars, execFailure>>
    /\ UNCHANGED <<waitVars, shutVars, sessVars, flushVars, retryVars, combVars, unitVars>>

\* ContainerOperations.save_container_logs -> get_container_logs: NotFound
\* is fatal; the logs of a stopped container can be read.  Then
\* ContainerManager.stop_container.  The energy workflow runs the same
\* three steps in line.  The clock and the poll counter of shutdown_framework,
\* which has returned, are dropped.
\* "ensuring container is fully stopped": ContainerManager.stop_container is
\* called after the logs are saved, whatever shutdown_framework returned.
EnergyManager_run_tests_ForcedStopMutant == FALSE
EnergyManager_run_tests_ForcedStop == TRUE

save_container_logs ==
    /\ pc = "cl_logs"
    /\ IF ~Exists(cid)
       THEN Exit(1)
       ELSE IF EnergyManager_run_tests_ForcedStop
       THEN Call("sc_get", "cl_done")
       ELSE Jump("cl_done")
    /\ now' = 0 /\ start_time' = 0 /\ polls' = 0
    /\ UNCHANGED <<wcfg, probes, empties, response, ready>>
    /\ UNCHANGED <<session, scfg, cid, target, returned, rtCalls, runtimeVars>>
    /\ UNCHANGED <<shutVars, sessVars, flushVars, logVars, retryVars, combVars, unitVars>>

\* get_container_logs: except Exception: sys.exit(1)
save_container_logs_Error ==
    /\ pc = "cl_logs"
    /\ Exit(1)
    /\ UNCHANGED <<session, scfg, cid, target, returned, rtCalls, runtimeVars>>
    /\ UNCHANGED scFrame

\* _cleanup_container returned True: summary report, "Profiling completed
\* successfully", main() returns.  In energy mode combine_energy_runs comes
\* first and exits when a run has no energy.json.
combine_energy_runs_Ok == \A r \in 1..scfg.runs : r \in saved

Profiler_run_Done ==
    /\ pc = "cl_done"
    /\ IF scfg.mode = "energy" /\ ~combine_energy_runs_Ok
       THEN Exit(1)
       ELSE Finish
    /\ UNCHANGED <<session, scfg, cid, target, returned, rtCalls, runtimeVars>>
    /\ UNCHANGED scFrame

(***************************************************************************)
(* EnergyManager.run_tests                                                 *)
(***************************************************************************)
\* One iteration of "for test in tests": test["endpoint"] and test["name"]
\* are read without a check, a failed load test is only logged.
EnergyManager_run_tests_Test ==
    /\ pc = "en_test"
    /\ testIdx <= scfg.tests
    /\ IF testIdx = scfg.bad
       THEN Exit(1) /\ UNCHANGED <<testIdx, invoked, failed>>
       ELSE \E success \in BOOLEAN :
              /\ invoked' = Append(invoked, testIdx)
              /\ failed' = IF success THEN failed ELSE failed \union {testIdx}
              /\ Jump("en_test")
              /\ testIdx' = testIdx + 1
    /\ UNCHANGED <<runNum, signals, sfCalls, interSleeps, saved, execFailure>>
    /\ UNCHANGED <<session, scfg, cid, target, returned, rtCalls, runtimeVars>>
    /\ UNCHANGED <<waitVars, shutVars, flushVars, retryVars, combVars, unitVars>>

(***************************************************************************)
(* EnergyManager._save_energy_run_data                                     *)
(***************************************************************************)
\* The states of /output/energy/emissions.csv: its size in bytes, the number
\* of newlines in it, the number of data rows after the header (a blank line
\* is no row), whether pandas and the conversions of parse_codecarbon_output
\* accept it, and whether the file was written during the current run
\* (fresh) or is left from an earlier one.  The contents are a header line,
\* a header and a blank line, or a header and a well-formed row; a malformed
\* row ends the process in parse_codecarbon_output as the blank line does.
ArtifactSizes == {40, MinArtifactSize + 1}
Artifacts ==
    {NoArtifact} \union
    {a \in [exists : {TRUE}, size : ArtifactSizes, newlines : 1..2, rows : 0..1,
            parsable : BOOLEAN, fresh : {TRUE}] :
        /\ a.parsable = (a.rows > 0)
        /\ a.rows > 0 => a.newlines = 2}

\* The measured process, or anything else with access to the output volume,
\* writes the file while the flush wait runs.
EnvArtifactWritten ==
    /\ pc = "en_flush"
    /\ \E a \in Artifacts :
        /\ a # artifact
        /\ artifact' = a
    /\ UNCHANGED <<flushI, flushResult>>
    /\ UNCHANGED <<runtimeVars, procVars, waitVars, shutVars, sessVars, logVars, retryVars, combVars, unitVars>>

\* The measured application (frameworks/python/flask/app.py): its /shutdown
\* endpoint answers and starts a thread that sleeps a second and sends
\* SIGTERM to the process, whose handler calls sys.exit(0); the container
\* exits.  A container never runs again once it has stopped, so a running
\* container has received every signal sent so far.
shutdown_server ==
    /\ Live
    /\ signals > 0
    /\ IsRunning(cid)
    /\ containers' = DockerStop(cid)
    /\ UNCHANGED envFrame

\* First part: mkdir in the container (when that exec fails on every attempt
\* the outer handler returns False), then send_server_shutdown.  The pass of
\* load tests is over ("for test in tests" is exhausted), its log is dropped.
EnergyManager_run_tests_TestsDoneMutant == testIdx >= scfg.tests
EnergyManager_run_tests_TestsDone == testIdx > scfg.tests

save_energy_run_data_Signal ==
    /\ pc = "en_test"
    /\ EnergyManager_run_tests_TestsDone
    /\ flushI' = 0
    /\ IF IsRunning(cid)
       THEN /\ signals' = signals + 1
            /\ flushResult' = "none"
            /\ Jump("en_flush")
            /\ UNCHANGED execFailure
       ELSE /\ execFailure' = ExecFailureKind(cid)
            /\ flushResult' = "execfail"
            /\ Jump("en_next")
            /\ UNCHANGED signals
    /\ invoked' = <<>>
    /\ failed' = {}
    /\ UNCHANGED <<testIdx, runNum, sfCalls, interSleeps, saved, artifact>>
    /\ UNCHANGED <<session, scfg, cid, target, returned, rtCalls, runtimeVars>>
    /\ UNCHANGED <<waitVars, shutVars, retryVars, combVars, unitVars>>

\* file_exists == "exists" and int(file_size) > 100
save_energy_run_data_FileReady(a) == a.exists /\ a.size > MinArtifactSize

\* for i in range(max_wait_time)
save_energy_run_data_LoopCondMutant(i) == i < MaxWaitTime + 1
save_energy_run_data_LoopCond(i) == i < MaxWaitTime

\* One iteration of the flush wait: the file tests, then break or
\* time.sleep(1).  An exec that fails on every attempt is caught in the
\* loop: a warning, time.sleep(1), next iteration.
save_energy_run_data_Poll ==
    /\ pc = "en_flush"
    /\ save_energy_run_data_LoopCond(flushI)
    /\ IF ~IsRunning(cid)
       THEN /\ execFailure' = ExecFailureKind(cid)
            /\ flushI' = flushI + 1
            /\ Jump("en_flush")
       ELSE IF save_energy_run_data_FileReady(artifact)
       THEN /\ Jump("en_copy")
            /\ UNCHANGED <<flushI, execFailure>>
       ELSE /\ flushI' = flushI + 1
            /\ Jump("en_flush")
            /\ UNCHANGED execFailure
    /\ UNCHANGED <<artifact, flushResult, invoked, failed>>
    /\ UNCHANGED <<session, scfg, cid, target, returned, rtCalls, runtimeVars>>
    /\ UNCHANGED <<waitVars, shutVars, sessVars, retryVars, combVars, unitVars>>

\* The loop ran out: the code goes on to the copy without looking at why.
save_energy_run_data_Timeout ==
    /\ pc = "en_flush"
    /\ ~save_energy_run_data_LoopCond(flushI)
    /\ Jump("en_copy")
    /\ UNCHANGED <<session, scfg, cid, target, returned, rtCalls, runtimeVars>>
    /\ UNCHANGED scFrame

\* not (not emissions_content or emissions_content.count('\n') <= 1); cat of
\* a missing file gives one line of error text.
save_energy_run_data_HasData(a) == a.exists /\ a.newlines > 1

\* parse_codecarbon_output returns: the file is not empty, pandas reads it,
\* len(df) > 0 and the last row converts; otherwise sys.exit(1).
parse_codecarbon_output_OkMutant(a) == a.exists
parse_codecarbon_output_Ok(a) == a.exists /\ a.rows > 0 /\ a.parsable

\* Second part: cat the file, "No emissions data found" returns False, else
\* the content is written to the run directory, parsed and energy.json is
\* written; a file parse_codecarbon_output cannot read ends the process.
save_energy_run_data_Copy ==
    /\ pc = "en_copy"
    /\ IF ~IsRunning(cid)
       THEN /\ execFailure' = ExecFailureKind(cid)
            /\ flushResult' = "execfail"
            /\ Jump("en_next")
            /\ UNCHANGED saved
       ELSE /\ UNCHANGED execFailure
            /\ IF ~save_energy_run_data_HasData(artifact)
               THEN /\ flushResult' = "nodata"
                    /\ Jump("en_next")
                    /\ UNCHANGED saved
               ELSE IF parse_codecarbon_output_Ok(artifact)
               THEN /\ flushResult' = "saved"
                    /\ saved' = saved \union {runNum}
                    /\ Jump("en_next")
               ELSE /\ flushResult' = "unparsable"
                    /\ Exit(1)
                    /\ UNCHANGED saved
    /\ flushI' = 0
    /\ UNCHANGED <<testIdx, runNum, signals, sfCalls, interSleeps, artifact, invoked, failed>>
    /\ UNCHANGED <<session, scfg, cid, target, returned, rtCalls, runtimeVars>>
    /\ UNCHANGED <<waitVars, shutVars, retryVars, combVars, unitVars>>

\* The result of _save_energy_run_data is not looked at.  Next run, or after
\* the last one: shutdown_framework, save_container_logs, stop_container.
\* Nothing removes /output/energy/emissions.csv between two runs: the next
\* run starts with the file the last one left.  After the last run the
\* program does not read the file again and it is not tracked further.
\* if run_num < runs: time.sleep(run_interval)
EnergyManager_run_tests_SleepsAfterMutant(run_num, runs) == run_num <= runs
EnergyManager_run_tests_SleepsAfter(run_num, runs) == run_num < runs

EnergyManager_run_tests_Next ==
    /\ pc = "en_next"
    /\ IF runNum < scfg.runs
       THEN /\ runNum' = runNum + 1
            /\ testIdx' = 1
            /\ Jump("en_test")
       ELSE /\ UNCHANGED <<runNum, testIdx>>
            /\ Call("sf_enter", "cl_logs")
    /\ artifact' = IF runNum < scfg.runs
                   THEN [artifact EXCEPT !.fresh = FALSE]
                   ELSE NoArtifact
    /\ interSleeps' = IF EnergyManager_run_tests_SleepsAfter(runNum, scfg.runs)
                      THEN interSleeps + 1
                      ELSE interSleeps
    /\ execFailure' = "none"
    /\ UNCHANGED <<signals, sfCalls, saved, flushI, flushResult, invoked, failed>>
    /\ UNCHANGED <<session, scfg, cid, target, returned, rtCalls, runtimeVars>>
    /\ UNCHANGED <<waitVars, shutVars, retryVars, combVars, unitVars>>

(***************************************************************************)
(* The measurement sessions.                                               *)
(***************************************************************************)
Init ==
    /\ RetryIdle
    /\ containers = [i \in Ids |-> NoContainer]
    /\ network \in BOOLEAN
    /\ netCreates = 0
    /\ ProcIdle
    /\ WaitIdle
    /\ ShutIdle
    /\ SessIdle
    /\ CombIdle
    /\ UnitIdle

Next ==
    \/ main
    \/ run_container_Network
    \/ stop_container_if_exists_Get
    \/ stop_container_if_exists_Stop
    \/ stop_container_if_exists_Remove
    \/ stop_container_if_exists_Error
    \/ run_container_Run
    \/ run_container_RunFails
    \/ wait_for_container_ready_Enter
    \/ wait_for_container_ready_Loop
    \/ wait_for_container_ready_Get
    \/ wait_for_container_ready_Probe
    \/ wait_for_container_ready_ProbeFails
    \/ run_container_AfterWait
    \/ run_container_Fatal
    \/ Profiler_run
    \/ Profiler_run_tests_Test
    \/ Profiler_cleanup_container
    \/ save_container_logs
    \/ save_container_logs_Error
    \/ Profiler_run_Done
    \/ EnergyManager_run_tests_Test
    \/ save_energy_run_data_Signal
    \/ save_energy_run_data_Poll
    \/ save_energy_run_data_Timeout
    \/ save_energy_run_data_Copy
    \/ EnergyManager_run_tests_Next
    \/ shutdown_framework_Enter
    \/ shutdown_framework_Poll
    \/ shutdown_framework_Timeout
    \/ shutdown_framework_Forced
    \/ shutdown_framework_PollError
    \/ shutdown_framework_Fatal
    \/ stop_container_Get
    \/ stop_container_Stop
    \/ stop_container_Remove
    \/ stop_container_Error
    \/ EnvContainerExits
    \/ EnvContainerVanishes
    \/ EnvArtifactWritten
    \/ shutdown_server

Spec == Init /\ [][Next]_vars

(***************************************************************************)
(* The sessions with the scheduling of a sequential program: Python runs   *)
(* the next statement of main() whenever there is one, time.sleep returns, *)
(* and a call wrapped by with_retry returns or raises.  The                *)
(* environment is under no obligation.                                     *)
(***************************************************************************)
ProgramStep ==
    \/ run_container_Network
    \/ stop_container_if_exists_Get
    \/ stop_container_if_exists_Stop
    \/ stop_container_if_exists_Remove
    \/ run_container_Run
    \/ wait_for_container_ready_Enter
    \/ wait_for_container_ready_Loop
    \/ wait_for_container_ready_Get
    \/ wait_for_container_ready_Probe
    \/ wait_for_container_ready_ProbeFails
    \/ run_container_AfterWait
    \/ run_container_Fatal
    \/ Profiler_run
    \/ Profiler_run_tests_Test
    \/ Profiler_cleanup_container
    \/ save_container_logs
    \/ Profiler_run_Done
    \/ EnergyManager_run_tests_Test
    \/ save_energy_run_data_Signal
    \/ save_energy_run_data_Poll
    \/ save_energy_run_data_Timeout
    \/ save_energy_run_data_Copy
    \/ EnergyManager_run_tests_Next
    \/ shutdown_framework_Enter
    \/ shutdown_framework_Poll
    \/ shutdown_framework_Timeout
    \/ shutdown_framework_Forced
    \/ shutdown_framework_Fatal
    \/ stop_container_Get
    \/ stop_container_Stop
    \/ stop_container_Remove

\* The runtime's failures, which may or may not happen.
RuntimeError ==
    \/ stop_container_if_exists_Error
    \/ run_container_RunFails
    \/ save_container_logs_Error
    \/ shutdown_framework_PollError
    \/ stop_container_Error

\* A wrapped call on its own, instead of a session.
RetryStep ==
    /\ pc = "idle"
    /\ session = 0
    /\ \/ with_retry_Loop
       \/ with_retry_CallReturns
       \/ with_retry_CallRaises

NextTerm ==
    \/ (pc = "idle" /\ session = 0 /\ with_retry_Start)
    \/ RetryStep
    \/ (pc = "idle" /\ session = 0 /\ with_retry_Reset)
    \/ (RetryIdle /\ session = 0 /\ main)
    \/ ProgramStep
    \/ RuntimeError
    \/ EnvContainerExits
    \/ EnvContainerVanishes
    \/ EnvArtifactWritten
    \/ shutdown_server

\* A container of an earlier session is still there under the name "flask".
InitTerm ==
    /\ RetryIdle
    /\ containers = [i \in Ids |->
          IF i = MaxSessions
          THEN [name |-> ContainerName("flask"), status |-> "running"]
          ELSE NoContainer]
    /\ network = FALSE
    /\ netCreates = 0
    /\ ProcIdle
    /\ WaitIdle
    /\ ShutIdle
    /\ SessIdle
    /\ CombIdle
    /\ UnitIdle

SpecTerm == InitTerm /\ [][NextTerm]_vars /\ WF_vars(ProgramStep) /\ WF_vars(RetryStep)

(***************************************************************************)
(* EnergyManager.combine_energy_runs: the function                         *)
(***************************************************************************)
\* energy_file.exists() and json.load and data.copy() succeed
combine_energy_runs_FileOkMutant(f) == f.state # "missing"
combine_energy_runs_FileOk(f) == f.state = "report"

\* all_keys[section]
all_keys(run_data, s) ==
    UNION {run_data[i][s].keys : i \in {j \in 1..Len(run_data) : run_data[j][s].present}}

\* [r[section][key] for r in run_data if key in r[section]]
RECURSIVE combine_energy_runs_Values(_, _, _, _)
combine_energy_runs_Values(run_data, s, k, n) ==
    IF n = 0 THEN <<>>
    ELSE LET rest == combine_energy_runs_Values(run_data, s, k, n - 1)
         IN  IF k \in run_data[n][s].keys
             THEN Append(rest, run_data[n][s].value[k])
             ELSE rest

\* r[section] raises KeyError for a report without the section; the handler
\* around the statistics of the key logs a warning and the key is left out.
combine_energy_runs_Raises(run_data, s) ==
    \E i \in 1..Len(run_data) : ~run_data[i][s].present

\* The keys that get an entry from section s.
combine_energy_runs_Keys(run_data, s) ==
    IF combine_energy_runs_Raises(run_data, s) THEN {} ELSE all_keys(run_data, s)

combine_energy_runs_Stat(values) ==
    LET a == AsFloats(values)
    IN  [values |-> values,
         mean |-> np_mean(a),
         stddev |-> np_std(a),
         min |-> np_min(a),
         max |-> np_max(a),
         coefficient_of_variation |-> coefficient_of_variation(a)]

\* statistics: the sections are processed in order and an entry of a later
\* section replaces one of the same key.
combine_energy_runs_Statistics(run_data) ==
    [k \in AllKeys |->
        LET from == {i \in 1..Len(Sections) : k \in combine_energy_runs_Keys(run_data, Sections[i])}
        IN  IF from = {} THEN NoAggregate.statistics[k]
            ELSE LET last == CHOOSE i \in from : \A j \in from : j <= i
                 IN  combine_energy_runs_Stat(
                         combine_energy_runs_Values(run_data, Sections[last], k, Len(run_data)))]

\* The whole function: the runs directory, the loop over the num_runs report
\* files, the empty-list test, the statistics, the write of energy_runs.json.
combine_energy_runs ==
    /\ pc = "combine"
    /\ LET run_data == [i \in 1..numRuns |-> files[i].data]
       IN  IF \/ ~runsDir
              \/ \E i \in 1..numRuns : ~combine_energy_runs_FileOk(files[i])
              \/ run_data = <<>>
           THEN /\ Exit(1)
                /\ UNCHANGED aggregate
           ELSE /\ aggregate' = [written |-> TRUE,
                                 runs |-> Len(run_data),
                                 statistics |-> combine_energy_runs_Statistics(run_data)]
                /\ Finish
    /\ UNCHANGED <<numRuns, runsDir, files>>
    /\ UNCHANGED <<session, scfg, cid, target, returned, rtCalls, runtimeVars>>
    /\ UNCHANGED <<waitVars, shutVars, sessVars, flushVars, logVars, retryVars, unitVars>>

\* combine_energy_runs on its own: any number of runs, any files on disk.
InitCombine ==
    /\ RetryIdle
    /\ RuntimeEmpty
    /\ pc = "combine"
    /\ stack = <<>>
    /\ exitStatus = 0 - 1
    /\ exitAt = ""
    /\ session = 1
    /\ scfg = NoSession
    /\ cid = 0
    /\ target = 0
    /\ returned = "none"
    /\ rtCalls = {}
    /\ WaitIdle
    /\ ShutIdle
    /\ SessIdle
    /\ numRuns \in 0..MaxReports
    /\ runsDir \in BOOLEAN
    /\ files \in [1..MaxReports -> FileStates]
    /\ runsDir = FALSE => \A i \in 1..MaxReports : files[i].state = "missing"
    /\ aggregate = NoAggregate
    /\ UnitIdle

NextCombine == combine_energy_runs

SpecCombine == InitCombine /\ [][NextCombine]_vars

(***************************************************************************)
(* ContainerOperations.execute_command, the function with_retry wraps:     *)
(* one attempt resolves the container, runs the command in it and decodes  *)
(* the bytes it printed.  A non-zero exit code is logged when              *)
(* check_exit_code is set; every exception is logged and raised again, to  *)
(* the retry wrapper.                                                      *)
(***************************************************************************)
MaxExitCode == 2
MaxOutput == 2

\* The bytes a command prints here: "A", the two bytes of U+00E9 (0xC3 0xA9)
\* and 0xFF.
Bytes == {65, 195, 169, 255}

RECURSIVE SeqsUpTo(_, _)
SeqsUpTo(S, n) ==
    IF n = 0 THEN {<<>>}
    ELSE LET R == SeqsUpTo(S, n - 1)
         IN  R \cup {Append(r, x) : r \in {q \in R : Len(q) = n - 1}, x \in S}

\* bytes.decode('utf-8') with the default errors='strict'.
utf8_IsContinuation(b) == b >= 128 /\ b <= 191

\* The length of the sequence a byte starts; 0: it starts none.
utf8_Length(b) ==
    IF b < 128 THEN 1
    ELSE IF b >= 194 /\ b <= 223 THEN 2
    ELSE IF b >= 224 /\ b <= 239 THEN 3
    ELSE IF b >= 240 /\ b <= 244 THEN 4
    ELSE 0

\* The second byte: no overlong form, no surrogate, nothing above U+10FFFF.
utf8_SecondOk(b, c) ==
    CASE b = 224 -> c >= 160 /\ c <= 191
      [] b = 237 -> c >= 128 /\ c <= 159
      [] b = 240 -> c >= 144 /\ c <= 191
      [] b = 244 -> c >= 128 /\ c <= 143
      [] OTHER -> utf8_IsContinuation(c)

utf8_CodePoint(bs, n) ==
    CASE n = 1 -> bs[1]
      [] n = 2 -> (bs[1] - 192) * 64 + (bs[2] - 128)
      [] n = 3 -> (bs[1] - 224) * 4096 + (bs[2] - 128) * 64 + (bs[3] - 128)
      [] OTHER -> (bs[1] - 240) * 262144 + (bs[2] - 128) * 4096
                     + (bs[3] - 128) * 64 + (bs[4] - 128)

\* ok: the bytes are valid UTF-8 and text is the string; else UnicodeDecodeError.
RECURSIVE utf8_decode(_)
utf8_decode(bs) ==
    IF bs = <<>> THEN [ok |-> TRUE, text |-> <<>>]
    ELSE LET n == utf8_Length(Head(bs))
         IN  IF \/ n = 0
                \/ Len(bs) < n
                \/ (n >= 2 /\ ~utf8_SecondOk(bs[1], bs[2]))
                \/ \E k \in 3..n : ~utf8_IsContinuation(bs[k])
             THEN [ok |-> FALSE, text |-> <<>>]
             ELSE LET rest == utf8_decode(SubSeq(bs, n + 1, Len(bs)))
                  IN  IF rest.ok
                      THEN [ok |-> TRUE, text |-> <<utf8_CodePoint(bs, n)>> \o rest.text]
                      ELSE rest

\* What one attempt meets: whether get_container resolves the container,
\* whether exec_run fails in transport, and the exit code and the output of
\* a command that ran.
ExecEnvs ==
    {e \in [found : BOOLEAN, failed : BOOLEAN, exit_code : 0..MaxExitCode,
            output : SeqsUpTo(Bytes, MaxOutput)] :
        (~e.found \/ e.failed) => (e.exit_code = 0 /\ e.output = <<>>)}

\* if check_exit_code and result.exit_code != 0: logger.warning(...)
execute_command_Warns(check, code) == check /\ code # 0

\* The body of execute_command.
execute_command(check, e) ==
    LET met == [check_exit_code |-> check, found |-> e.found, failed |-> e.failed,
                exit_code |-> e.exit_code, output |-> e.output,
                outcome |-> "none", text |-> <<>>, warned |-> FALSE]
        d == utf8_decode(e.output)
    IN  IF ~e.found THEN [met EXCEPT !.outcome = "NotFound"]
        ELSE IF e.failed THEN [met EXCEPT !.outcome = "APIError"]
        ELSE IF ~d.ok
             THEN [met EXCEPT !.outcome = "UnicodeDecodeError",
                              !.warned = execute_command_Warns(check, e.exit_code)]
             ELSE [met EXCEPT !.outcome = "returned", !.text = d.text,
                              !.warned = execute_command_Warns(check, e.exit_code)]

\* return func(*args, **kwargs), func being execute_command: it returns.
execute_command_Returns ==
    /\ rpc = "call"
    /\ \E e \in ExecEnvs :
        /\ exec' = execute_command(exec.check_exit_code, e)
        /\ exec'.outcome = "returned"
    /\ calls' = calls + 1
    /\ result' = calls + 1
    /\ rpc' = "returned"
    /\ UNCHANGED <<rcfg, attempt, wait_time, last_error, sleeps>>
    /\ UNCHANGED <<runtimeVars, procVars, waitVars, shutVars, sessVars, flushVars, logVars, combVars>>
    /\ UNCHANGED <<script, track>>

\* execute_command raises: except Exception as e: last_error = e; attempt += 1
execute_command_Raises ==
    /\ rpc = "call"
    /\ \E e \in ExecEnvs :
        /\ exec' = execute_command(exec.check_exit_code, e)
        /\ exec'.outcome # "returned"
    /\ calls' = calls + 1
    /\ last_error' = calls + 1
    /\ attempt' = attempt + 1
    /\ rpc' = "loop"
    /\ UNCHANGED <<rcfg, wait_time, sleeps, result>>
    /\ UNCHANGED <<runtimeVars, procVars, waitVars, shutVars, sessVars, flushVars, logVars, combVars>>
    /\ UNCHANGED <<script, track>>

\* execute_command on its own, with either value of check_exit_code and any
\* retry settings.
InitExec ==
    /\ RetryIdle /\ RuntimeEmpty /\ ProcIdle /\ WaitIdle /\ ShutIdle /\ SessIdle /\ CombIdle
    /\ exec \in {[NoExec EXCEPT !.check_exit_code = c] : c \in BOOLEAN}
    /\ script = NoScript
    /\ track = NoTrack

NextExec ==
    \/ with_retry_Start
    \/ with_retry_Loop
    \/ execute_command_Returns
    \/ execute_command_Raises
    \/ with_retry_Reset

SpecExec == InitExec /\ [][NextExec]_vars

(***************************************************************************)
(* Script resolution.  A script is looked up under PROJECT_ROOT/wrk in the *)
(* directory of the mode.  The repository has three functions for it:      *)
(* WrkManager.get_script_path (used by Profiler and EnergyManager through  *)
(* WrkManager.run_test) and the two get_wrk_script_path of src/runners.    *)
(* A file name is a stem and whether it ends with ".lua"; a path is a      *)
(* directory of wrk/ and a file name.                                      *)
(***************************************************************************)
ScriptNames == [stem : {"json", "basic"}, lua : BOOLEAN] \ {[stem |-> "basic", lua |-> FALSE]}

\* f"{script_name}.lua"
WithLua(name) == [name EXCEPT !.lua = TRUE]

\* "basic.lua"
BasicLua == [stem |-> "basic", lua |-> TRUE]

\* The files that can exist under wrk/.  A script other than basic.lua is
\* only ever looked up in the directory of the mode.
ScriptFiles(mode) ==
    {<<mode, n>> : n \in ScriptNames} \cup {<<m, BasicLua>> : m \in Modes}

\* WrkManager.get_script_path: the name as given, the name with ".lua", then
\* basic.lua of the same directory, else FileNotFoundError.
WrkManager_get_script_path(name, mode, fs) ==
    LET wrk_dir == mode
        found(path) == [kind |-> "path", path |-> path, warned |-> FALSE]
    IN  IF <<wrk_dir, name>> \in fs THEN found(<<wrk_dir, name>>)
        ELSE IF ~name.lua /\ <<wrk_dir, WithLua(name)>> \in fs
             THEN found(<<wrk_dir, WithLua(name)>>)
        ELSE IF <<wrk_dir, BasicLua>> \in fs
             THEN [kind |-> "path", path |-> <<wrk_dir, BasicLua>>, warned |-> TRUE]
        ELSE [kind |-> "FileNotFoundError", path |-> NoPath, warned |-> TRUE]

\* for fallback_mode in ["profile", "standard", "energy"]
FallbackModes == <<"profile", "standard", "energy">>

\* The first fallback mode, from position k on, that is not the mode and has
\* a basic.lua; "" when there is none.
RECURSIVE FirstFallback(_, _, _)
FirstFallback(k, mode, fs) ==
    IF k > Len(FallbackModes) THEN ""
    ELSE IF FallbackModes[k] # mode /\ <<FallbackModes[k], BasicLua>> \in fs
         THEN FallbackModes[k]
         ELSE FirstFallback(k + 1, mode, fs)

\* runners/wrk_manager.py get_wrk_script_path: the same three candidates,
\* then basic.lua of another mode, else None.
wrk_manager_get_wrk_script_path(name, mode, fs) ==
    LET mode_dir == mode
        found(path) == [kind |-> "path", path |-> path, warned |-> FALSE]
        fallback_mode == FirstFallback(1, mode, fs)
    IN  IF <<mode_dir, name>> \in fs THEN found(<<mode_dir, name>>)
        ELSE IF ~name.lua /\ <<mode_dir, WithLua(name)>> \in fs
             THEN found(<<mode_dir, WithLua(name)>>)
        ELSE IF <<mode_dir, BasicLua>> \in fs
             THEN [kind |-> "path", path |-> <<mode_dir, BasicLua>>, warned |-> TRUE]
        ELSE IF fallback_mode # ""
             THEN [kind |-> "path", path |-> <<fallback_mode, BasicLua>>, warned |-> TRUE]
        ELSE [kind |-> "None", path |-> NoPath, warned |-> TRUE]

\* runners/wrk_runner.py get_wrk_script_path: the name as given, the name
\* with ".lua", else None.  (A missing mode directory holds no file and gives
\* None as well.)
wrk_runner_get_wrk_script_path(name, mode, fs) ==
    LET wrk_dir == mode
        found(path) == [kind |-> "path", path |-> path, warned |-> FALSE]
    IN  IF <<wrk_dir, name>> \in fs THEN found(<<wrk_dir, name>>)
        ELSE IF ~name.lua /\ <<wrk_dir, WithLua(name)>> \in fs
             THEN found(<<wrk_dir, WithLua(name)>>)
        ELSE [kind |-> "None", path |-> NoPath, warned |-> TRUE]

\* script_mode = "profile" if mode == MODE_QUICK else mode
run_test_ScriptMode(mode) == IF mode = "quick" THEN "profile" ELSE mode

\* The file that the "-s" argument of the load generator denotes.
\* WrkManager.run_test and run_wrk_test mount wrk/ at /scripts and pass
\* f"/scripts/{script_mode}/{script_filename}"; run_wrk_container mounts the
\* directory of the script and passes f"/scripts/{script_filename}".
run_test_ScriptArg(by, mode, path) ==
    IF by = "wrk_manager.get_wrk_script_path"
    THEN path
    ELSE <<run_test_ScriptMode(mode), path[2]>>

\* The lookup, and for a script that was found the argument made from it.
ScriptAnswer(by, r) ==
    /\ script.by = "none"
    /\ script' = [script EXCEPT !.by = by, !.kind = r.kind, !.path = r.path,
                                !.warned = r.warned,
                                !.arg = IF r.kind = "path"
                                        THEN run_test_ScriptArg(by, script.mode, r.path)
                                        ELSE NoPath]
    /\ UNCHANGED <<retryVars, runtimeVars, procVars, waitVars, shutVars, sessVars,
                   flushVars, logVars, combVars, exec, track>>

get_script_path ==
    ScriptAnswer("WrkManager.get_script_path",
                 WrkManager_get_script_path(script.name, script.mode, script.files))

get_wrk_script_path_manager ==
    ScriptAnswer("wrk_manager.get_wrk_script_path",
                 wrk_manager_get_wrk_script_path(script.name, script.mode, script.files))

get_wrk_script_path_runner ==
    ScriptAnswer("wrk_runner.get_wrk_script_path",
                 wrk_runner_get_wrk_script_path(script.name, script.mode, script.files))

\* A lookup on its own: any script name, any mode, any files under wrk/.
InitScript ==
    /\ RetryIdle /\ RuntimeEmpty /\ ProcIdle /\ WaitIdle /\ ShutIdle /\ SessIdle /\ CombIdle
    /\ exec = NoExec
    /\ track = NoTrack
    /\ \E name \in ScriptNames, mode \in Modes :
         \E fs \in SUBSET ScriptFiles(mode) :
            script = [NoScript EXCEPT !.name = name, !.mode = mode, !.files = fs]

NextScript ==
    \/ get_script_path
    \/ get_wrk_script_path_manager
    \/ get_wrk_script_path_runner

SpecScript == InitScript /\ [][NextScript]_vars

(***************************************************************************)
(* runners/run_with_tracking.py: run_with_energy_tracking and the handler  *)
(* it installs for SIGTERM and SIGINT.  A Python signal handler runs in    *)
(* the main thread between two steps of the main path.                     *)
(***************************************************************************)
MaxSignals == 2

\* The handlers are installed, the directories made, total_exit_code = 0; the
\* local name tracker is not bound yet.
run_with_energy_tracking_Entered(runs) ==
    [NoTrack EXCEPT !.pc = "loop", !.runs = runs,
                    !.mainStops = [t \in 1..runs |-> 0],
                    !.handlerStops = [t \in 1..runs |-> 0]]

TrackStep(t) ==
    /\ track' = t
    /\ UNCHANGED <<retryVars, runtimeVars, procVars, waitVars, shutVars, sessVars,
                   flushVars, logVars, combVars, exec, script>>

\* for run_num in range(1, runs + 1); after the loop: return total_exit_code
run_with_energy_tracking_Loop ==
    /\ track.pc = "loop"
    /\ TrackStep(IF track.run_num < track.runs
                 THEN [track EXCEPT !.run_num = @ + 1, !.pc = "create"]
                 ELSE [track EXCEPT !.pc = "returned", !.status = track.total_exit_code])

\* tracker = EmissionsTracker(...)
run_with_energy_tracking_Create ==
    /\ track.pc = "create"
    /\ TrackStep([track EXCEPT !.tracker = track.run_num, !.pc = "start"])

\* tracker.start()
run_with_energy_tracking_Start ==
    /\ track.pc = "start"
    /\ TrackStep([track EXCEPT !.started = @ \cup {track.tracker}, !.pc = "popen"])

\* except Exception as e: tracker.stop(); return 1
run_with_energy_tracking_OnError(t) ==
    [t EXCEPT !.mainStops[t.tracker] = @ + 1, !.pc = "returned", !.status = 1]

\* proc = subprocess.Popen(command), which may raise
run_with_energy_tracking_Popen ==
    /\ track.pc = "popen"
    /\ \/ TrackStep([track EXCEPT !.pc = "wait"])
       \/ TrackStep(run_with_energy_tracking_OnError(track))

\* exit_code = proc.wait(); total_exit_code = exit_code if exit_code != 0 else total_exit_code
run_with_energy_tracking_Wait ==
    /\ track.pc = "wait"
    /\ \E exit_code \in 0..MaxExitCode :
        TrackStep([track EXCEPT
            !.total_exit_code = IF exit_code # 0 THEN exit_code ELSE @,
            !.pc = "stop"])

\* emissions = tracker.stop()
run_with_energy_tracking_Stop ==
    /\ track.pc = "stop"
    /\ TrackStep([track EXCEPT !.mainStops[track.tracker] = @ + 1, !.pc = "after"])

\* The print of the emissions, the copy after the last run, the sleep before
\* the next one; any of them may raise, and then the handler of the try
\* stops the tracker again.
run_with_energy_tracking_After ==
    /\ track.pc = "after"
    /\ \/ TrackStep([track EXCEPT !.pc = "loop"])
       \/ TrackStep(run_with_energy_tracking_OnError(track))

\* The process is inside run_with_energy_tracking with the handlers installed.
TrackAlive == track.pc \notin {"none", "returned", "exited"}

\* signal_handler is entered: if shutting_down: return; shutting_down = True
signal_handler_Enter ==
    /\ TrackAlive
    /\ track.pc # "handler"
    /\ track.signals < MaxSignals
    /\ TrackStep([track EXCEPT !.signals = @ + 1, !.shutting_down = TRUE,
                               !.at = track.pc, !.pc = "handler"])

\* A further signal while the handler runs: shutting_down is set, it returns.
signal_handler_Again ==
    /\ track.pc = "handler"
    /\ track.shutting_down
    /\ track.signals < MaxSignals
    /\ TrackStep([track EXCEPT !.signals = @ + 1])

\* try: tracker.stop() except Exception: print(...); then sys.exit(0).  With
\* tracker not bound yet the call raises NameError, which the except takes.
signal_handler_Stop ==
    /\ track.pc = "handler"
    /\ TrackStep(IF track.tracker = 0
                 THEN [track EXCEPT !.unbound = TRUE, !.pc = "exited", !.status = 0]
                 ELSE [track EXCEPT !.handlerStops[track.tracker] = @ + 1,
                                    !.pc = "exited", !.status = 0])

\* The wrapper on its own, for any number of runs.
InitTrack ==
    /\ RetryIdle /\ RuntimeEmpty /\ ProcIdle /\ WaitIdle /\ ShutIdle /\ SessIdle /\ CombIdle
    /\ exec = NoExec
    /\ script = NoScript
    /\ \E runs \in 1..MaxRuns : track = run_with_energy_tracking_Entered(runs)

NextTrack ==
    \/ run_with_energy_tracking_Loop
    \/ run_with_energy_tracking_Create
    \/ run_with_energy_tracking_Start
    \/ run_with_energy_tracking_Popen
    \/ run_with_energy_tracking_Wait
    \/ run_with_energy_tracking_Stop
    \/ run_with_energy_tracking_After
    \/ signal_handler_Enter
    \/ signal_handler_Again
    \/ signal_handler_Stop

SpecTrack == InitTrack /\ [][NextTrack]_vars

(***************************************************************************)
(* The properties checked of the model.                                    *)
(***************************************************************************)

\* C5: for every max_attempts = k >= 1, an operation that fails on every call
\* is invoked exactly k times and the wrapper then raises the error of the
\* last (k-th) call; an operation that succeeds on attempt j <= k is invoked
\* exactly j times and the value of that j-th call is returned.
C5_RetryAttempts ==
    rcfg.max_attempts >= 1 =>
        /\ rpc # "none"
        /\ rpc = "raised" =>
              /\ calls = rcfg.max_attempts
              /\ last_error = rcfg.max_attempts
              /\ result = 0
        /\ rpc = "returned" =>
              /\ calls = attempt
              /\ calls \in 1..rcfg.max_attempts
              /\ result = calls

\* C5's case: three attempts were allowed, all three failed, the wrapper raised.
C5_Witness ==
    /\ rpc = "raised"
    /\ rcfg.max_attempts = 3
    /\ calls = 3

\* C6: the sleep that follows the failure of attempt a is
\* initial_wait * backoff_factor^(a-1); nothing is slept before the first
\* attempt nor after the last failed one, so k failed attempts make k-1 sleeps.
C6_BackoffSleeps ==
    /\ \A a \in 1..Len(sleeps) :
          sleeps[a] = rcfg.initial_wait * Pow(rcfg.backoff_factor, a - 1)
    /\ calls = 0 => sleeps = <<>>
    /\ rpc \in {"call", "returned"} => Len(sleeps) = attempt - 1
    /\ rpc = "raised" => Len(sleeps) = calls - 1
    /\ (rpc = "loop" /\ calls >= 1) => Len(sleeps) = calls - 1

\* C6's case: three failed attempts with initial_wait 2 and factor 3 slept 2 then 6.
C6_Witness ==
    /\ rpc = "raised"
    /\ calls = 3
    /\ rcfg.initial_wait = 2
    /\ rcfg.backoff_factor = 3
    /\ sleeps = <<2, 6>>

\* C9: a poll of wait_for_container_ready that finds the container with a
\* status other than running returns False in that very step: no endpoint
\* request is issued, nothing is slept and the call is over.
C9_NotRunningReturnsAtOnce ==
    [][(pc = "wr_get" /\ polls' = polls + 1 /\ Exists(cid) /\ ~IsRunning(cid))
          => /\ ready' = FALSE
             /\ pc' = Head(stack)
             /\ stack' = Tail(stack)
             /\ probes' = probes
             /\ now' = now]_vars

\* C9's case: the call returned False before its timeout, at a poll (not the
\* first) that found the container stopped and issued no request.
C9_Witness ==
    /\ pc = "done"
    /\ ~ready
    /\ Exists(cid) /\ ~IsRunning(cid)
    /\ polls >= 2
    /\ probes = polls - 1
    /\ empties = probes
    /\ now - start_time < wcfg.timeout

\* The inputs of scenario B: timeout 5 s, interval 1 s, the container running
\* at every poll and every response empty; the call has returned.
ScenarioB ==
    /\ pc = "done"
    /\ wcfg = [timeout |-> 5, interval |-> 1]
    /\ empties = polls

\* C10 as stated: False after 5 polls, and the whole call took about 5 seconds
\* (within one check interval of 5).
C10_Original ==
    ScenarioB => /\ ~ready
                 /\ polls = 5
                 /\ now \in 4..6

\* C10 amended: False after 5 polls; the polling loop lasted 5 seconds and the
\* whole call, with the 3 s warm-up sleep before the loop, 8 seconds.
C10_TimeoutAfterWarmUp ==
    ScenarioB => /\ ~ready
                 /\ polls = 5
                 /\ now - start_time = 5
                 /\ now = WarmUpDelay + 5

\* C10's case: scenario B ran to its timeout.
C10_Witness ==
    /\ ScenarioB
    /\ ~ready
    /\ polls = 5

\* The forced branch of shutdown_framework was taken: the loop ended with the
\* container running at every one of the 10 polls.
AllPollsRunning == forced /\ polls = GraceTimeoutSec

C8_GracefulReturnsTrue ==
    /\ [](sfResult = "true" =>
            /\ ~forced
            /\ now - start_time = polls - 1
            /\ now - start_time <= GraceTimeoutSec)
    /\ [][(pc = "sf_poll" /\ polls' = polls + 1 /\ (~Exists(cid) \/ ~IsRunning(cid)))
            => /\ sfResult' = "true"
               /\ pc' = Head(stack)
               /\ stack' = Tail(stack)
               /\ forced' = FALSE
               /\ now' = now
               /\ containers' = containers]_vars

\* C8's case (scenario C): the container stopped 3 s after the signal; the
\* fourth poll saw it and True was returned after 3 s, the container untouched.
C8_Witness ==
    /\ pc = "done"
    /\ sfResult = "true"
    /\ now - start_time = 3
    /\ polls = 4
    /\ Exists(cid) /\ ~IsRunning(cid)

\* The process of a session has ended; cid # 0 when it had started a container.
SessionEnded == session >= 1 /\ pc \in {"exited", "done"}

\* The steps of stop_container.
StopContainerSteps == {"sc_get", "sc_stop", "sc_remove"}

\* C1 as stated: whenever a session that started a container ends, on any
\* exit path, the container no longer exists.  Exits inside stop_container
\* itself, where the runtime refused the stop, are left aside.
C1_Original ==
    (SessionEnded /\ cid # 0 /\ exitAt \notin StopContainerSteps) => ~Exists(cid)

\* C2: at most one container of a given name is running; when run_container
\* starts the new container no container of that name exists, because
\* stop_container_if_exists has completed: a container it found is stopped
\* before it is removed.
C2_OneRunningPerName ==
    /\ \A i, j \in Ids :
          (IsRunning(i) /\ IsRunning(j) /\ containers[i].name = containers[j].name)
              => i = j
    /\ pc = "rc_run" => Named(ContainerName(scfg.image)) = {}
    /\ pc = "sie_remove" => ~IsRunning(target)

\* C2's case: the second session found the first session's container under
\* the name it wanted, removed it and is running its own container.
C2_Witness ==
    /\ session = 2
    /\ target = 1
    /\ ~Exists(1)
    /\ cid = 2
    /\ IsRunning(2)
    /\ containers[2].name = ContainerName(scfg.image)

\* The process ended inside run_container after the readiness wait returned
\* False: at run_container's own exit or inside its stop_container call.
EndedAfterFailedWait ==
    /\ pc = "exited"
    /\ cid # 0
    /\ \/ exitAt = "rc_fatal"
       \/ exitAt \in StopContainerSteps /\ stack = <<"rc_fatal">>

\* C3 as stated: when the process ends in run_container after a failed
\* readiness wait, the container is not running.
C3_Original ==
    EndedAfterFailedWait => ~IsRunning(cid)

\* C3 amended: after a failed readiness wait the process ends either at
\* run_container's own fatal exit, and then the container no longer exists,
\* or inside stop_container, when the runtime's lookup, stop or remove failed
\* with an error other than not-found (the container may then remain).
C3_StoppedAtFatalExit ==
    /\ (pc = "exited" /\ exitAt = "rc_fatal") => (~ready /\ ~Exists(cid))
    /\ (pc = "exited" /\ cid # 0 /\ ~ready)
          => exitAt \in {"rc_fatal"} \union StopContainerSteps
    /\ (pc \in StopContainerSteps \union {"rc_fatal"} /\ cid # 0 /\ ~ready)
          => stack = IF pc = "rc_fatal" THEN <<>> ELSE <<"rc_fatal">>

\* C3's case: the wait returned False, stop_container found the container
\* and removed it, run_container exited with status 1.
C3_Witness ==
    /\ pc = "exited"
    /\ exitAt = "rc_fatal"
    /\ exitStatus = 1
    /\ ~ready
    /\ target = cid
    /\ cid # 0
    /\ ~Exists(cid)

\* C4 as stated: a session that got to its load tests has sent the /shutdown
\* signal exactly once when it ends.
C4_Original ==
    (SessionEnded /\ testIdx >= 1) => signals = 1

\* The steps of the waits.
ReadinessSteps == {"wr_enter", "wr_loop", "wr_get", "wr_probe"}
ShutdownPollSteps == {"sf_poll", "sf_forced", "sf_fatal"}

C12_Original ==
    (pc = "en_next" /\ artifact.exists /\ artifact.size <= MinArtifactSize)
        => flushResult # "saved"

\* C13 as stated: after a run whose artifact was missing or header-only no
\* load test of a later run is started.
C13_Original ==
    (pc = "en_test" /\ runNum >= 2) => flushResult # "nodata"

\* C14 as stated: once a command execution has met a vanished container the
\* session does no further polling, neither in the readiness wait nor in the
\* flush wait.
C14_Original ==
    execFailure = "vanished"
        => ~(\/ pc \in {"wr_get", "wr_probe"}
             \/ pc = "en_flush" /\ save_energy_run_data_LoopCond(flushI))

\* C15 as stated: when a command execution has failed on every attempt of
\* with_retry the session is ended, or is in the stop_container that precedes
\* its end; the failure is not turned into a negative answer.
C15_Original ==
    execFailure # "none" => pc \in StopContainerSteps \union {"exited"}


\* The positions of the two test loops.
TestLoopSteps == {"rt_test", "en_test"}

\* C16: in profile, standard and energy mode a load test that returns false
\* does not end the session: the process ends inside a test loop only at a
\* test definition without name or endpoint.  Within a pass the tests are
\* invoked once each, in configuration order: at every point of the loop the
\* invocations so far are tests 1 .. testIdx-1, and the failed ones are among
\* them.
C16_FailedTestNotFatal ==
    scfg.mode # "quick" =>
        /\ pc \in TestLoopSteps =>
              /\ invoked = [i \in 1..(testIdx - 1) |-> i]
              /\ failed \subseteq 1..(testIdx - 1)
              /\ testIdx <= scfg.tests + 1
        /\ (pc = "exited" /\ exitAt \in TestLoopSteps) =>
              /\ testIdx = scfg.bad
              /\ invoked = [i \in 1..(testIdx - 1) |-> i]

\* C16's case: a pass of a standard-mode session is over, every configured
\* test has been invoked in order and the first one returned false.
C16_Witness ==
    /\ pc = "rt_test"
    /\ scfg.mode = "standard"
    /\ scfg.tests = MaxTests
    /\ testIdx = MaxTests + 1
    /\ invoked = [i \in 1..MaxTests |-> i]
    /\ 1 \in failed

CombineDone == pc \in {"done", "exited"} /\ exitAt = "combine"

\* C18: energy_runs.json is written only when num_runs >= 1 and every run
\* 1..num_runs has a readable energy.json, and then its run count is
\* num_runs; in every other case the function ends the process with status 1
\* and nothing is written.
C18_AggregateOnlyWhenComplete ==
    LET complete ==
            /\ numRuns >= 1
            /\ \A i \in 1..numRuns : files[i].state = "report"
    IN  /\ aggregate.written => complete /\ aggregate.runs = numRuns /\ pc = "done"
        /\ (CombineDone /\ ~complete) =>
              /\ pc = "exited"
              /\ exitStatus = 1
              /\ aggregate = NoAggregate
        /\ (CombineDone /\ complete) => aggregate.written

\* C18's case: the function has run with every report of MaxReports runs in
\* place and has written the aggregate.
C18_Witness ==
    /\ CombineDone
    /\ numRuns = MaxReports
    /\ aggregate.written
    /\ aggregate.runs = MaxReports

\* C19 as stated: every metric key found in some report has an entry whose
\* values list holds the value of each of the num_runs runs, in run order.
C19_Original ==
    aggregate.written =>
        \A s \in SectionNames : \A k \in MetricKeys[s] :
            (\E i \in 1..numRuns : k \in files[i].data[s].keys) =>
                /\ Len(aggregate.statistics[k].values) = numRuns
                /\ \A i \in 1..numRuns :
                       /\ k \in files[i].data[s].keys
                       /\ aggregate.statistics[k].values[i] = files[i].data[s].value[k]

\* C20 as stated: the coefficient of variation of a metric whose values are
\* the same in every run is 0, and it is 0 when the mean is 0.
C20_Original ==
    aggregate.written =>
        \A k \in AllKeys :
            LET st == aggregate.statistics[k]
            IN  \/ st.values = <<>>
                \/ /\ (\A i \in 1..Len(st.values) : st.values[i] = st.values[1])
                        => st.coefficient_of_variation = Zero
                   /\ st.mean = Zero => st.coefficient_of_variation = Zero

\* C21: stop_container_if_exists called with a name that no container bears
\* returns False after the lookup alone: neither stop nor remove is issued and
\* the runtime (containers, network) is as it was.  (A lookup that fails for
\* another reason than "not found" ends the process instead of returning.)
C21_AbsentReturnsFalse ==
    [][(/\ pc = "sie_get"
        /\ Named(ContainerName(scfg.image)) = {}
        /\ pc' \notin {"sie_get", "exited"})
       => /\ pc' = "rc_run"
          /\ returned' = "false"
          /\ rtCalls' = {"get"}
          /\ UNCHANGED runtimeVars]_vars

\* C21's case: the session's container name is borne by no container while a
\* container of another name exists; the call has returned False.
C21_Witness ==
    /\ pc = "rc_run"
    /\ Named(ContainerName(scfg.image)) = {}
    /\ \E i \in Ids : Exists(i)
    /\ returned = "false"
    /\ rtCalls = {"get"}

StopContainerPcs == {"sc_get", "sc_stop", "sc_remove"}

\* C22: stop_container takes "not found" for success.  Whenever it returns, it
\* returns True and the container does not exist; when the container is
\* already gone at the lookup, at the stop or at the remove, it returns True
\* from there and leaves the runtime as it is (so a second call right after a
\* successful one changes nothing and returns True as well).  Only an error
\* other than "not found" ends the process.
C22_AlreadyRemovedIsSuccess ==
    [][(pc \in StopContainerPcs /\ pc' \notin StopContainerPcs \cup {"exited"})
       => /\ pc' = Head(stack)
          /\ returned' = "true"
          /\ ~Exists(cid)'
          /\ (pc = "sc_get" /\ ~Exists(cid)) =>
                (rtCalls' = {"get"} /\ UNCHANGED runtimeVars)
          /\ (pc # "sc_get" /\ ~Exists(target)) => UNCHANGED runtimeVars]_vars

\* C22's case: the container disappeared between the lookup and the stop;
\* stop_container has returned True without a remove call, the process is alive.
C22_Witness ==
    /\ returned = "true"
    /\ rtCalls = {"get", "stop"}
    /\ target = cid
    /\ ~Exists(cid)
    /\ pc \notin StopContainerPcs \cup {"exited", "done", "idle"}

\* The command of the last attempt ran: the container was resolved and
\* exec_run gave a result.
ExecRan == exec.outcome # "none" /\ exec.found /\ ~exec.failed

\* C23 as stated: a command that ran and exited non-zero makes execute_command
\* return its output, with or without check_exit_code, and nothing is raised
\* to the retry wrapper; an attempt raises only when the container cannot be
\* resolved or the transport fails.
C23_Original ==
    /\ (ExecRan /\ exec.exit_code # 0) => exec.outcome = "returned"
    /\ exec.outcome \notin {"none", "returned"} => (~exec.found \/ exec.failed)

\* What holds of a command that ran: the exit code never decides the outcome.
\* The attempt returns the decoded output exactly when the output is valid
\* UTF-8, whatever the exit code and check_exit_code, and then the wrapper
\* returns without another attempt.
ExecuteCommandSteps ==
    /\ ExecRan =>
         /\ exec.outcome = "returned" <=> utf8_decode(exec.output).ok
         /\ exec.outcome = "returned" => exec.text = utf8_decode(exec.output).text
         /\ exec.warned <=> (exec.check_exit_code /\ exec.exit_code # 0)
    /\ rpc = "returned" => exec.outcome = "returned"

\* The candidates of the documented chain that lie in the mode's directory,
\* in order: the exact name, the name with the extension, the default script.
OwnCandidates ==
    <<<<script.mode, script.name>>, <<script.mode, WithLua(script.name)>>,
      <<script.mode, BasicLua>>>>

FirstOwn ==
    IF \E k \in 1..3 : OwnCandidates[k] \in script.files
    THEN OwnCandidates[CHOOSE k \in 1..3 :
            /\ OwnCandidates[k] \in script.files
            /\ \A j \in 1..(k - 1) : OwnCandidates[j] \notin script.files]
    ELSE NoPath

\* C24 as stated: the lookup returns the first existing candidate of the
\* chain exact name, name with extension, default script of the mode, default
\* script of another mode, and fails only when none of them exists.
C24_Original ==
    script.by # "none" =>
        IF FirstOwn # NoPath
        THEN script.kind = "path" /\ script.path = FirstOwn
        ELSE IF \E m \in Modes \ {script.mode} : <<m, BasicLua>> \in script.files
             THEN /\ script.kind = "path"
                  /\ script.path \in script.files
                  /\ script.path[1] # script.mode
                  /\ script.path[2] = BasicLua
             ELSE script.kind # "path"

\* What all three functions do: a path that is returned exists, and it is
\* never a later candidate of the mode's directory while an earlier one exists.
ScriptResolutionSteps ==
    (script.by # "none" /\ script.kind = "path") =>
        /\ script.path \in script.files
        /\ FirstOwn # NoPath => script.path = FirstOwn

\* C25 as stated: a network create is issued only when no network of the name
\* exists, so at most one create is ever issued.
C25_Original ==
    netCreates <= 1

\* C25: run_container issues a network create exactly when no network of the
\* name exists, and from then on the network exists; whatever the number of
\* sessions, a session that has passed this step runs with the network in
\* place.  (start_database issues a create of its own in every session that
\* does not skip the database, also when the network exists: the number of
\* creates issued is not bounded by one, the number of networks is.)
C25_EnsureNetworkIdempotent ==
    [][/\ pc = "rc_network" /\ pc' # pc =>
            /\ network'
            /\ netCreates' = (IF network THEN netCreates ELSE netCreates + 1)
       /\ network => network'
       /\ (pc \notin {"idle", "rc_network"} /\ pc' \notin {"idle", "rc_network"}) => network']_vars

\* C25's case: the second session has passed the network step of
\* run_container without a create of its own, the network exists, and both
\* sessions' start_database issued a create.
C25_Witness ==
    /\ session = 2
    /\ pc = "sie_get"
    /\ network
    /\ netCreates = 2

\* The positions of an energy cycle: the test loop, the flush wait, the copy
\* and parse, the end of the cycle.
EnergySteps == {"en_test", "en_flush", "en_copy", "en_next"}

CycleOrderStep ==
    pc \in EnergySteps =>
        /\ (pc = "en_test" /\ pc' \in {"en_flush", "en_next"}) =>
              invoked = [i \in 1..scfg.tests |-> i]
        /\ signals' # signals =>
              /\ pc = "en_test" /\ pc' = "en_flush"
              /\ signals' = signals + 1
        /\ pc' = "en_flush" => pc \in {"en_test", "en_flush"}
        /\ (pc' = "en_copy" /\ pc # "en_copy") =>
              /\ pc = "en_flush"
              /\ save_energy_run_data_FileReady(artifact) \/ flushI = MaxWaitTime
        /\ saved' # saved => (pc = "en_copy" /\ saved' = saved \union {runNum})
        /\ (pc' = "en_next" /\ pc # "en_next") => pc \in {"en_test", "en_copy"}
        /\ runNum' # runNum =>
              (pc = "en_next" /\ pc' = "en_test" /\ runNum' = runNum + 1)
        /\ pc' \notin EnergySteps \cup {"exited"} =>
              (pc = "en_next" /\ runNum = scfg.runs /\ pc' = "sf_enter")

EnergyTestStarted == pc = "en_test" /\ invoked' # invoked /\ Len(invoked') > Len(invoked)

\* C27 as stated: once a flush has sent its shutdown signal to the measured
\* container, a load test of a later run is still started against a running
\* container only.
C27_Original ==
    [][EnergyTestStarted => (IsRunning(cid) \/ signals = 0)]_vars

\* The flush wait of the current run ends on a file of more than 100 bytes.
FlushWaitSatisfied ==
    /\ pc = "en_flush"
    /\ pc' = "en_copy"
    /\ IsRunning(cid)
    /\ save_energy_run_data_FileReady(artifact)

\* The artifact is copied into the directory of the current run and reported.
ArtifactReported == pc = "en_copy" /\ saved' # saved

\* C28 as stated: the artifact that satisfies the flush wait of run n and is
\* copied into run_n was written during run n, never left by run n-1.
C28_Original ==
    [][(FlushWaitSatisfied \/ ArtifactReported) => artifact.fresh]_vars

\* combine_energy_runs is about to be invoked: the cleanup of an energy
\* session has returned.
AboutToCombine == pc = "cl_done" /\ scfg.mode = "energy"

CombineOrderStep ==
    /\ (pc' = "cl_done" /\ pc # "cl_done") => pc \in StopContainerPcs
    /\ (pc' = "cl_logs" /\ pc # "cl_logs") => sfResult' # "none"
    /\ (pc' = "sc_get" /\ pc # "sc_get" /\ Head(stack') = "cl_done") => pc = "cl_logs"

\* C29: after all energy cycles the container is stopped before aggregation.
\* combine_energy_runs is reached only from stop_container, which is entered
\* only after save_container_logs, which is entered only after
\* shutdown_framework has returned; when it is invoked, every cycle is over,
\* shutdown_framework and stop_container have both returned and the measured
\* container is neither running nor existing.
C29_StoppedBeforeAggregation ==
    /\ [][CombineOrderStep]_vars
    /\ [](AboutToCombine =>
            /\ runNum = scfg.runs
            /\ sfResult # "none"
            /\ returned = "true"
            /\ ~IsRunning(cid)
            /\ ~Exists(cid))

\* An energy session whose runs all have a report reaches the aggregation
\* after stop_container has stopped and removed the container.
C29_Witness ==
    /\ AboutToCombine
    /\ combine_energy_runs_Ok
    /\ rtCalls = {"get", "stop", "remove"}
    /\ returned = "true"
    /\ ~Exists(cid)

\* runs/run_n/energy.json is written for the current run.
ReportWritten == saved' # saved

ReportStep ==
    ReportWritten =>
        /\ pc = "en_copy"
        /\ saved' = saved \union {runNum}
        /\ artifact.exists
        /\ artifact.newlines > 1
        /\ artifact.rows > 0

\* C30: a per-run report is written only if the artifact read for that run
\* had at least one data row after the header.  A flush that found the
\* artifact missing, empty or header-only, or could not read it, ends
\* without a report for the run, and an artifact without a row that gets as
\* far as parse_codecarbon_output ends the process.
C30_ReportNeedsDataRow ==
    /\ [][ReportStep]_vars
    /\ []((pc = "en_next" /\ flushResult # "saved") => runNum \notin saved)
    /\ [](flushResult = "unparsable" =>
            (pc = "exited" /\ exitStatus = 1 /\ runNum \notin saved))

\* The first run read an artifact with a data row and has its report; the
\* second run read a header-only artifact and has none.
C30_Witness ==
    /\ pc = "en_next"
    /\ runNum = 2
    /\ flushResult = "nodata"
    /\ artifact.exists
    /\ artifact.rows = 0
    /\ saved = {1}

StopIfExistsPcs == {"sie_get", "sie_stop", "sie_remove"}

\* The process ended inside stop_container_if_exists.
EndedInStopIfExists == pc = "exited" /\ exitAt \in StopIfExistsPcs

\* C31: a lookup, stop or remove of the pre-existing container that fails
\* with another error than not-found ends the session in
\* stop_container_if_exists with status 1, and the session has started no
\* container: run_container gets to DockerUtils.run_container only after
\* stop_container_if_exists has returned True or False.
C31_OtherFailureIsFatal ==
    /\ EndedInStopIfExists =>
          /\ exitStatus = 1
          /\ cid = 0
          /\ ~Exists(session)
    /\ pc = "rc_run" => returned \in {"true", "false"}
    /\ Exists(session) => cid = session

\* C31's case: the container of an earlier session was found and stopped,
\* its removal failed, the process has exited and the old container is still
\* there.
C31_Witness ==
    /\ EndedInStopIfExists
    /\ exitAt = "sie_remove"
    /\ rtCalls = {"get", "stop"}
    /\ Exists(target)
    /\ ~IsRunning(target)
    /\ cid = 0

ReadyStep ==
    (ready' /\ ~ready) =>
        /\ pc = "wr_probe"
        /\ IsRunning(cid)
        /\ response'.got
        /\ Len(Strip(response'.body)) > 0
        /\ pc' = Head(stack)
        /\ now' = now
        /\ polls' = polls

\* A probe that raises: the container is not running when the request is made.
ProbeRaisesStep ==
    (pc = "wr_probe" /\ ~IsRunning(cid) /\ probes' # probes) =>
        (~ready' /\ ~response'.got /\ pc' = "wr_loop")

InterRunSleepStep ==
    interSleeps' > interSleeps =>
        /\ interSleeps' = interSleeps + 1
        /\ pc = "en_next"
        /\ flushResult # "none"
        /\ runNum < scfg.runs
        /\ runNum' = runNum + 1
        /\ pc' = "en_test"
        /\ testIdx' = 1
        /\ invoked' = <<>>

\* C33: between consecutive energy runs the inter-run interval is slept once,
\* after the flush and parse of run n and before the first test of run n+1,
\* and not after the last run: run n starts with n-1 sleeps made, and a
\* session that has made its N runs has slept N-1 times when the cleanup and
\* the aggregation are reached.
C33_InterRunSleeps ==
    /\ [][InterRunSleepStep]_vars
    /\ [](runNum >= 1 => interSleeps = runNum - 1)
    /\ []((scfg.mode = "energy" /\ pc \in {"sf_enter", "cl_logs", "cl_done", "done"})
            => interSleeps = scfg.runs - 1)

\* A session of two runs has finished both and slept once.
C33_Witness ==
    /\ scfg.mode = "energy"
    /\ scfg.runs = 2
    /\ pc = "cl_done"
    /\ runNum = 2
    /\ interSleeps = 1

\* A poll whose container lookup fails: the container no longer exists.
LookupFailsStep ==
    (pc = "wr_get" /\ polls' = polls + 1 /\ ~Exists(cid)) =>
        /\ pc' = "wr_loop"
        /\ stack' = stack
        /\ now' = now + wcfg.interval
        /\ probes' = probes
        /\ ~ready'

\* C34: a poll of wait_for_container_ready whose lookup fails because the
\* container no longer exists does not return: no request is made, the check
\* interval is slept and the loop goes on.  The call on a vanished container
\* returns only when the timeout has elapsed, and it returns False.
C34_LookupFailurePollsOn ==
    /\ [][LookupFailsStep]_vars
    /\ []((pc = "done" /\ ~Exists(cid))
            => (~ready /\ now - start_time >= wcfg.timeout))
    /\ []((pc \in ReadinessSteps /\ ~Exists(cid)) => ~ready)

\* C34's case: the container vanished during the wait, at least two polls
\* failed at the lookup, and the call returned False at its timeout.
C34_Witness ==
    /\ pc = "done"
    /\ ~Exists(cid)
    /\ ~ready
    /\ polls >= probes + 2
    /\ now - start_time >= wcfg.timeout

\* shutdown_framework returns in this step.
ShutdownResultStep ==
    (sfResult' # sfResult) =>
        /\ (sfResult' = "true") =
              (pc = "sf_poll" /\ polls < GraceTimeoutSec /\ shutdown_framework_Stopped(cid))
        /\ (sfResult' = "false") =
              (pc = "sf_forced" /\ forced /\ polls = GraceTimeoutSec /\ returned = "true")
        /\ (sfResult' = "none") = (pc = "sf_enter")

\* C35: shutdown_framework does not look at what send_server_shutdown
\* returned.  After a send that failed the status poll runs as after one that
\* succeeded; the call returns True exactly at a poll that finds the
\* container not running or gone, and False exactly after ten polls that
\* found it running and the forced stop that followed, which has stopped and
\* removed the container.
C35_ResultFromStatusOnly ==
    /\ [][ShutdownResultStep]_vars
    /\ [][(pc = "sf_enter" /\ pc' # pc) => (pc' = "sf_poll" /\ polls' = 0 /\ sent' # "none")]_vars
    /\ [](pc = "sf_forced" => (forced /\ polls = GraceTimeoutSec /\ ~Exists(cid)))
    /\ [](pc \in {"sf_poll", "sf_forced"} => sent \in {"true", "false"})

\* C35's case: the send failed on a running container, ten polls found it
\* running, the forced stop has removed it and False is about to be returned.
C35_Witness ==
    /\ sent = "false"
    /\ pc = "sf_forced"
    /\ returned = "true"
    /\ forced
    /\ polls = GraceTimeoutSec
    /\ rtCalls = {"get", "stop", "remove"}
    /\ ~Exists(cid)

\* C36 as stated: the script argument handed to the load generator denotes
\* the file that the lookup found and checked for existence.
C36_Original ==
    script.kind = "path" => script.arg = script.path

\* C37 as stated: no tracker is stopped both by the signal handler and by the
\* main path, no tracker is stopped twice by the handler, and the handler
\* never calls stop with no tracker created.
C37_Original ==
    /\ \A t \in 1..track.runs :
          /\ track.handlerStops[t] <= 1
          /\ track.handlerStops[t] = 1 => track.mainStops[t] = 0
    /\ ~track.unbound

\* C38 as stated: whatever max_attempts is, a call through with_retry that
\* has ended has called the wrapped operation at least once and has ended by
\* returning its result or by raising.
C38_Original ==
    with_retry_Done => (calls >= 1 /\ rpc \in {"returned", "raised"})

====
